---------------------------- MODULE Spec2Model ----------------------------
(***************************************************************************)
(* A model of the transport client of orbs-tee-host (src/src/vsock/        *)
(* client.ts): the length-prefixed framing protocol, the two socket        *)
(* clients (UnixSocketClient, VsocketClient), the retry wrapper they use   *)
(* and the mock enclave they talk to in the integration tests.             *)
(*                                                                         *)
(* Bytes are the naturals 0..255, strings are sequences of code points.    *)
(***************************************************************************)
EXTENDS Integers, Sequences, FiniteSets, TLC

(***************************************************************************)
(* Bounds of the model.                                                    *)
(***************************************************************************)
\* number of sendRequest calls of the framing specification
MaxFrameSends == 2
\* a chunk of a delivery holds 1..MaxChunk bytes, or all bytes in flight
MaxChunk == 2

(***************************************************************************)
(* JSON values.  A JavaScript value is a record tagged by its type; an     *)
(* object keeps its properties in insertion order as <<key, value>> pairs. *)
(***************************************************************************)
Undefined == [t |-> "undef"]
JNull == [t |-> "null"]
JBool(b) == [t |-> "bool", b |-> b]
JNum(n) == [t |-> "num", n |-> n]
JStr(s) == [t |-> "str", s |-> s]
JObj(kv) == [t |-> "obj", kv |-> kv]

\* the concatenation of a sequence of sequences
RECURSIVE Flatten(_)
Flatten(ss) ==
  IF ss = <<>> THEN <<>> ELSE Head(ss) \o Flatten(Tail(ss))

\* the decimal digits of a natural number, as code points
RECURSIVE Digits(_)
Digits(n) ==
  IF n < 10 THEN <<48 + n>> ELSE Digits(n \div 10) \o <<48 + (n % 10)>>

\* JSON.stringify of one character of a string: '"' and '\' are escaped
EscapeChar(c) ==
  IF c = 34 THEN <<92, 34>> ELSE IF c = 92 THEN <<92, 92>> ELSE <<c>>

\* JSON.stringify of a string
QuoteString(s) ==
  <<34>> \o Flatten([i \in 1..Len(s) |-> EscapeChar(s[i])]) \o <<34>>

\* the properties JSON.stringify writes: those whose value is not undefined
RECURSIVE Defined(_)
Defined(kv) ==
  IF kv = <<>> THEN <<>>
  ELSE IF Head(kv)[2] = Undefined THEN Defined(Tail(kv))
  ELSE <<Head(kv)>> \o Defined(Tail(kv))

\* JSON.stringify(value): no white space, properties in insertion order
RECURSIVE JsonStringify(_)
RECURSIVE StringifyMembers(_)
StringifyMembers(kv) ==
  IF kv = <<>> THEN <<>>
  ELSE QuoteString(Head(kv)[1]) \o <<58>> \o JsonStringify(Head(kv)[2])
       \o (IF Len(kv) > 1 THEN <<44>> \o StringifyMembers(Tail(kv)) ELSE <<>>)

JsonStringify(v) ==
  CASE v.t = "null" -> <<110, 117, 108, 108>>
    [] v.t = "bool" -> IF v.b THEN <<116, 114, 117, 101>>
                       ELSE <<102, 97, 108, 115, 101>>
    [] v.t = "num" -> Digits(v.n)
    [] v.t = "str" -> QuoteString(v.s)
    [] v.t = "obj" -> <<123>> \o StringifyMembers(Defined(v.kv)) \o <<125>>

\* Buffer.from(json, 'utf-8') of one code point
Utf8EncodeChar(c) ==
  IF c < 128 THEN <<c>>
  ELSE IF c < 2048 THEN <<192 + (c \div 64), 128 + (c % 64)>>
  ELSE <<224 + (c \div 4096), 128 + ((c \div 64) % 64), 128 + (c % 64)>>

\* Buffer.from(json, 'utf-8')
Utf8Encode(s) == Flatten([i \in 1..Len(s) |-> Utf8EncodeChar(s[i])])

IsCont(b, i) == i <= Len(b) /\ b[i] >= 128 /\ b[i] < 192

\* buffer.toString('utf-8'): an ill-formed byte decodes to U+FFFD
RECURSIVE Utf8DecodeFrom(_, _)
Utf8DecodeFrom(b, i) ==
  IF i > Len(b) THEN <<>>
  ELSE IF b[i] < 128 THEN <<b[i]>> \o Utf8DecodeFrom(b, i + 1)
  ELSE IF b[i] >= 194 /\ b[i] < 224 /\ IsCont(b, i + 1)
    THEN <<(b[i] - 192) * 64 + (b[i + 1] - 128)>> \o Utf8DecodeFrom(b, i + 2)
  ELSE IF b[i] >= 224 /\ b[i] < 240 /\ IsCont(b, i + 1) /\ IsCont(b, i + 2)
    THEN <<(b[i] - 224) * 4096 + (b[i + 1] - 128) * 64 + (b[i + 2] - 128)>>
         \o Utf8DecodeFrom(b, i + 3)
  ELSE <<65533>> \o Utf8DecodeFrom(b, i + 1)

Utf8Decode(b) == Utf8DecodeFrom(b, 1)

(***************************************************************************)
(* JSON.parse, for the JSON that JsonStringify writes: objects, strings,   *)
(* non-negative integers, true, false and null, without white space.  A    *)
(* parse step answers [ok, v, i]: whether it parsed, the value, and the    *)
(* index after it.                                                         *)
(***************************************************************************)
ParseFail == [ok |-> FALSE, v |-> JNull, i |-> 0]

IsDigit(s, i) == i <= Len(s) /\ s[i] >= 48 /\ s[i] <= 57

\* whether the literal lit stands at index i of s
Literal(s, i, lit) ==
  /\ i + Len(lit) - 1 <= Len(s)
  /\ \A k \in 1..Len(lit) : s[i + k - 1] = lit[k]

\* the characters of a string up to its closing quote
RECURSIVE ParseStringBody(_, _, _)
ParseStringBody(s, i, acc) ==
  IF i > Len(s) THEN ParseFail
  ELSE IF s[i] = 34 THEN [ok |-> TRUE, v |-> JStr(acc), i |-> i + 1]
  ELSE IF s[i] = 92
    THEN IF i + 1 <= Len(s) /\ s[i + 1] \in {34, 92}
           THEN ParseStringBody(s, i + 2, Append(acc, s[i + 1]))
           ELSE ParseFail
  ELSE IF s[i] < 32 THEN ParseFail
  ELSE ParseStringBody(s, i + 1, Append(acc, s[i]))

ParseString(s, i) ==
  IF i <= Len(s) /\ s[i] = 34 THEN ParseStringBody(s, i + 1, <<>>)
  ELSE ParseFail

RECURSIVE ParseDigits(_, _, _)
ParseDigits(s, i, acc) ==
  IF IsDigit(s, i) THEN ParseDigits(s, i + 1, acc * 10 + (s[i] - 48))
  ELSE [ok |-> TRUE, v |-> JNum(acc), i |-> i]

\* a number: 0, or a digit 1..9 followed by digits
ParseNumber(s, i) ==
  IF ~IsDigit(s, i) THEN ParseFail
  ELSE IF s[i] = 48 THEN [ok |-> TRUE, v |-> JNum(0), i |-> i + 1]
  ELSE ParseDigits(s, i, 0)

RECURSIVE ParseValue(_, _)
RECURSIVE ParseMembers(_, _, _)
\* the members of an object from index i, after those in acc
ParseMembers(s, i, acc) ==
  LET k == ParseString(s, i) IN
  IF ~k.ok \/ k.i > Len(s) \/ s[k.i] # 58 THEN ParseFail
  ELSE LET m == ParseValue(s, k.i + 1) IN
    IF ~m.ok \/ m.i > Len(s) THEN ParseFail
    ELSE IF s[m.i] = 125
      THEN [ok |-> TRUE, v |-> JObj(Append(acc, <<k.v.s, m.v>>)), i |-> m.i + 1]
    ELSE IF s[m.i] = 44
      THEN ParseMembers(s, m.i + 1, Append(acc, <<k.v.s, m.v>>))
    ELSE ParseFail

ParseValue(s, i) ==
  IF i > Len(s) THEN ParseFail
  ELSE IF s[i] = 123
    THEN IF i + 1 <= Len(s) /\ s[i + 1] = 125
           THEN [ok |-> TRUE, v |-> JObj(<<>>), i |-> i + 2]
           ELSE ParseMembers(s, i + 1, <<>>)
  ELSE IF s[i] = 34 THEN ParseString(s, i)
  ELSE IF IsDigit(s, i) THEN ParseNumber(s, i)
  ELSE IF Literal(s, i, <<110, 117, 108, 108>>)
    THEN [ok |-> TRUE, v |-> JNull, i |-> i + 4]
  ELSE IF Literal(s, i, <<116, 114, 117, 101>>)
    THEN [ok |-> TRUE, v |-> JBool(TRUE), i |-> i + 4]
  ELSE IF Literal(s, i, <<102, 97, 108, 115, 101>>)
    THEN [ok |-> TRUE, v |-> JBool(FALSE), i |-> i + 5]
  ELSE ParseFail

\* JSON.parse(text): [ok, v]; ok is FALSE where JSON.parse throws
JsonParse(s) ==
  LET r == ParseValue(s, 1) IN
  IF r.ok /\ r.i = Len(s) + 1 THEN [ok |-> TRUE, v |-> r.v]
  ELSE [ok |-> FALSE, v |-> JNull]

(***************************************************************************)
(* The wire format: [4 bytes: length (big-endian)][N bytes: JSON].         *)
(***************************************************************************)
\* the four bytes of n with the least significant first
UInt32LE(n) ==
  <<n % 256, (n \div 256) % 256, (n \div 65536) % 256, (n \div 16777216) % 256>>

\* lengthBuffer.writeUInt32BE(n, 0), for n < 2^32
UInt32BE(n) ==
  <<(n \div 16777216) % 256, (n \div 65536) % 256, (n \div 256) % 256, n % 256>>

\* buffer.slice(from, to) of JavaScript: zero-based, `to` excluded, both
\* clamped to the buffer
Slice(b, from, to) ==
  SubSeq(b, from + 1, IF to > Len(b) THEN Len(b) ELSE to)

\* buffer.readUInt32BE(0)
ReadUInt32BE(b) == b[1] * 16777216 + b[2] * 65536 + b[3] * 256 + b[4]

\* jsonBuffer of writeMessage: Buffer.from(JSON.stringify(msg), 'utf-8')
JsonBuffer(msg) == Utf8Encode(JsonStringify(msg))

\* a length prefix that counts the characters of the JSON text
LengthOfText(msg) == UInt32BE(Len(JsonStringify(msg)))

\* lengthBuffer of writeMessage
LengthBuffer(msg) == UInt32BE(Len(JsonBuffer(msg)))

\* JSON.parse(messageBuffer.toString('utf-8'))
ParseMessage(messageBuffer) == JsonParse(Utf8Decode(messageBuffer))

\* a test that is satisfied by the length prefix alone
PrefixComplete(buf, length) == Len(buf) >= 4

\* whether the buffer holds the whole message whose length it starts with
FrameComplete(buf, length) == Len(buf) >= 4 + length

(***************************************************************************)
(* The envelopes.  Property names and method names as code points.         *)
(***************************************************************************)
K_id == <<105, 100>>
K_method == <<109, 101, 116, 104, 111, 100>>
K_params == <<112, 97, 114, 97, 109, 115>>
K_timestamp == <<116, 105, 109, 101, 115, 116, 97, 109, 112>>
K_success == <<115, 117, 99, 99, 101, 115, 115>>
K_data == <<100, 97, 116, 97>>
K_error == <<101, 114, 114, 111, 114>>
K_pong == <<112, 111, 110, 103>>
S_ping == <<112, 105, 110, 103>>
S_unknown == <<117, 110, 107, 110, 111, 119, 110>>
S_UnknownMethod ==
  <<85, 110, 107, 110, 111, 119, 110, 32, 109, 101, 116, 104, 111, 100, 58, 32>>

\* TeeRequest
TeeRequest(id, method, params, timestamp) ==
  JObj(<< <<K_id, JStr(id)>>, <<K_method, JStr(method)>>,
          <<K_params, params>>, <<K_timestamp, JNum(timestamp)>> >>)

\* obj[key] of JavaScript: undefined when the object has no such property
RECURSIVE Lookup(_, _)
Lookup(kv, key) ==
  IF kv = <<>> THEN Undefined
  ELSE IF Head(kv)[1] = key THEN Head(kv)[2]
  ELSE Lookup(Tail(kv), key)

Prop(v, key) == IF v.t = "obj" THEN Lookup(v.kv, key) ELSE Undefined

\* uuidv4() of the call-th request: a fresh identifier
Uuid(call) == <<96 + call>>

\* the values of Date.now() the mock enclave draws
EnclaveClock == {12}

\* the requests the model's callers send as their call-th request.  The first
\* request of a run has a known or an unknown method and params that are
\* absent, a string or an object, with characters of one, two and three bytes
\* and characters JSON escapes; the later ones are a plain ping
Requests(call) ==
  IF call > 1
    THEN {TeeRequest(Uuid(call), S_ping, JObj(<<>>), 0)}
    ELSE {TeeRequest(Uuid(call), S_ping, Undefined, 12),
          TeeRequest(Uuid(call), S_ping, JStr(<<233, 34>>), 0),
          TeeRequest(Uuid(call), <<120>>,
                     JObj(<< <<<<107>>, JStr(<<8364, 92>>)>> >>), 12)}

\* the sizes of the chunks in which `len` bytes in flight may arrive
ChunkSizes(len) == {n \in 1..len : n <= MaxChunk \/ n = len}

(***************************************************************************)
(* MockEnclave.                                                            *)
(***************************************************************************)
\* MockEnclave.handleRequest, for 'ping' and for a method it does not know
HandleRequest(request, now) ==
  LET method == Prop(request, K_method) IN
  IF method = JStr(S_ping)
    THEN JObj(<< <<K_id, Prop(request, K_id)>>, <<K_success, JBool(TRUE)>>,
                 <<K_data, JObj(<< <<K_pong, JBool(TRUE)>>,
                                   <<K_timestamp, JNum(now)>> >>)>> >>)
    ELSE JObj(<< <<K_id, Prop(request, K_id)>>, <<K_success, JBool(FALSE)>>,
                 <<K_error,
                   JStr(S_UnknownMethod \o
                        (IF method.t = "str" THEN method.s
                         ELSE <<117, 110, 100, 101, 102, 105, 110, 101, 100>>))>> >>)

\* the response MockEnclave sends for a message it cannot process
ErrorResponse ==
  JObj(<< <<K_id, JStr(S_unknown)>>, <<K_success, JBool(FALSE)>>,
          <<K_error, JStr(<<>>)>> >>)

\* MockEnclave.sendResponse: one write of length + message
SendResponse(response) ==
  UInt32BE(Len(JsonBuffer(response))) \o JsonBuffer(response)

\* the 'data' handler of MockEnclave.handleConnection: process all complete
\* messages in the buffer.  e = [buffer, requestCount, received, sent]
RECURSIVE EnclaveLoop(_, _)
EnclaveLoop(e, now) ==
  IF Len(e.buffer) < 4 THEN e
  ELSE LET messageLength == ReadUInt32BE(e.buffer) IN
    IF Len(e.buffer) >= 4 + messageLength
      THEN LET messageBuffer == Slice(e.buffer, 4, 4 + messageLength)
               rest == Slice(e.buffer, 4 + messageLength, Len(e.buffer))
               r == ParseMessage(messageBuffer)
           IN EnclaveLoop(
                IF r.ok
                  THEN [buffer |-> rest,
                        requestCount |-> e.requestCount + 1,
                        received |-> Append(e.received, r.v),
                        sent |-> e.sent \o SendResponse(HandleRequest(r.v, now))]
                  ELSE [buffer |-> rest,
                        requestCount |-> e.requestCount,
                        received |-> e.received,
                        sent |-> e.sent \o SendResponse(ErrorResponse)],
                now)
      ELSE e

(***************************************************************************)
(* VsocketClient.handleData.                                               *)
(***************************************************************************)
\* the loop of handleData over the buffer.  h = [buf, pend, settled, frames]:
\* dataBuffer, pendingResponse (the sendRequest call that awaits, 0 for
\* undefined), the promises settled so far and the messages extracted so far
\* a handler that leaves pendingResponse as it is once its promise is settled
Kept(pend) == pend

\* pendingResponse after a message was extracted: the promise, if there was
\* one, is settled and this.pendingResponse = undefined
Cleared(pend) == 0

RECURSIVE HandleDataLoop(_)
HandleDataLoop(h) ==
  IF Len(h.buf) < 4 THEN h
  ELSE LET length == ReadUInt32BE(h.buf) IN
    IF FrameComplete(h.buf, length)
      THEN LET messageBuffer == Slice(h.buf, 4, 4 + length)
               r == ParseMessage(messageBuffer)
           IN HandleDataLoop(
                [buf |-> Slice(h.buf, 4 + length, Len(h.buf)),
                 pend |-> Cleared(h.pend),
                 settled |-> IF h.pend = 0 THEN h.settled
                             ELSE Append(h.settled,
                                         [call |-> h.pend, ok |-> r.ok, v |-> r.v,
                                          bytes |-> messageBuffer]),
                 frames |-> Append(h.frames, messageBuffer)])
      ELSE h

\* handleData(chunk): append to the buffer, then parse complete messages
HandleData(buf, pend, chunk) ==
  HandleDataLoop([buf |-> buf \o chunk, pend |-> pend, settled |-> <<>>,
                  frames |-> <<>>])

(***************************************************************************)
(* The state.                                                              *)
(***************************************************************************)
VARIABLES
  kind,            \* the class of the client: "unix" (UnixSocketClient) or
                   \* "vsock" (VsocketClient)
  retryAttempts,   \* config.retryAttempts
  socket,          \* this.socket: an index of socks, 0 for undefined
  connected,       \* this.connected
  dataBuffer,      \* VsocketClient.dataBuffer
  pendingResponse, \* VsocketClient.pendingResponse: the sendRequest call whose
                   \* promise it holds, 0 for undefined
  socks,           \* every socket the instance has opened, in opening order
  timers,          \* the connect timers that have not fired, in firing order
  conns,           \* the connect() calls made so far
  sends,           \* the sendRequest() calls made so far
  enclave,         \* the peer: MockEnclave's requestCount, the requests it
                   \* parsed, and the faults of the peer and the network so
                   \* far (socket errors, closes, frames that are not JSON)
  echo,            \* whether the peer echoes bytes instead of being MockEnclave
  writes,          \* history: every write on a socket, in call order, and
                   \* whether the socket took it
  operation,       \* the operation given to retryWithBackoff: what each of
                   \* its invocations does, in invocation order
  retry,           \* the retryWithBackoff calls under study
  endpoints,       \* L3Client's config.endpoints: what a request to each
                   \* does
  submits,         \* the submitAttestation calls under study
  queries,         \* the queryConsensusStatus calls under study
  checks,          \* the checkGuardiansHealth calls under study
  http,            \* the HTTP requests the API server has received, with
                   \* the response to each once it is sent
  requestsProcessed \* the module variable of routes/status.ts

\* the transport client and its peer
clientVars == <<kind, retryAttempts, socket, connected, dataBuffer,
                pendingResponse, socks, timers, conns, sends, enclave, echo,
                writes>>

\* retryWithBackoff, L3Client and the HTTP API
retryVars == <<operation, retry>>
l3Vars == <<endpoints, submits, queries, checks>>
apiVars == <<http, requestsProcessed>>
utilVars == <<operation, retry, endpoints, submits, queries, checks, http,
              requestsProcessed>>

vars == <<kind, retryAttempts, socket, connected, dataBuffer, pendingResponse,
          socks, timers, conns, sends, enclave, echo, writes,
          operation, retry, endpoints, submits, queries, checks, http,
          requestsProcessed>>

\* a socket net.connect() / new VsockSocket() has just made, for attempt att
\* of connect() call conn.  toPeer and toHost are the bytes in flight, got
\* all bytes delivered to the client so far, rbuf the stream's read buffer
\* (paused mode), peerBuf the `buffer` of MockEnclave.handleConnection,
\* split whether a delivery has ended inside a length prefix.  st is
\* "connecting", "open", "destroyed" (its 'close' event is still to come) or
\* "closed"; shook whether its 'connect' event has been emitted; ended
\* whether the client has called end() on it; eof whether the peer has
\* closed its side
NewSocket(conn, att) ==
  [st |-> "connecting", shook |-> FALSE, ended |-> FALSE, eof |-> FALSE,
   conn |-> conn, att |-> att, toPeer |-> <<>>, toHost |-> <<>>, got |-> <<>>,
   rbuf |-> <<>>, peerBuf |-> <<>>, split |-> FALSE]

\* a sendRequest call that has just been made
NewSend(req) ==
  [req |-> req, pc |-> "new", conn |-> 0, reconn |-> 0, wsock |-> 0,
   wfail |-> FALSE,
   lengthBuffer |-> <<>>, length |-> 0, acc |-> <<>>, resp |-> JNull,
   err |-> "", frames |-> 0]

\* whether a write on socket s succeeds: the socket is open and neither
\* side has closed it
Writable(s) == socks[s].st = "open" /\ ~socks[s].ended /\ ~socks[s].eof

\* whether net.Socket s takes a write: a socket that is still connecting
\* queues it until its handshake
Accepts(s) == socks[s].st \in {"connecting", "open"} /\ ~socks[s].ended

\* socket.write(bytes) / socket.writeSync(bytes) on socket s of ss
SocketWrite(ss, s, bytes) ==
  [ss EXCEPT ![s].toPeer = @ \o bytes]

Outstanding(c) == sends[c].pc \notin {"ok", "err"}

\* a test that looks at the socket only
NoSocket(isConnected, sk) == sk = 0

\* the test sendRequest starts with: !this.connected || !this.socket
NotConnected(isConnected, sk) == ~isConnected \/ sk = 0

(***************************************************************************)
(* sendRequest(req), up to its first suspension.                           *)
(***************************************************************************)
\* UnixSocketClient.sendRequest: the connected check, then writeMessage up
\* to socket.write(lengthBuffer, cb)
UnixSendRequest(req) ==
  LET c == Len(sends) + 1 IN
  /\ kind = "unix"
  /\ IF NotConnected(connected, socket)
       THEN /\ sends' = Append(sends, [NewSend(req) EXCEPT
                                         !.pc = "err",
                                         !.err = "Not connected to enclave"])
            /\ UNCHANGED <<socks, writes>>
       ELSE /\ sends' = Append(sends, [NewSend(req) EXCEPT
                                         !.pc = "w1", !.wsock = socket,
                                         !.wfail = ~Accepts(socket)])
            /\ socks' = IF Accepts(socket)
                          THEN SocketWrite(socks, socket, LengthBuffer(req))
                          ELSE socks
            /\ writes' = Append(writes, [sock |-> socket, call |-> c,
                                         part |-> "len",
                                         sent |-> Accepts(socket),
                                         bytes |-> LengthBuffer(req)])
  /\ UNCHANGED <<kind, retryAttempts, socket, connected, dataBuffer,
                 pendingResponse, timers, conns, enclave, echo>>

\* the callback of socket.write(lengthBuffer, cb): on success the second
\* write, socket.write(jsonBuffer, cb), on this.socket as it is now
UnixLengthWritten(c) ==
  /\ kind = "unix"
  /\ c \in 1..Len(sends)
  /\ sends[c].pc = "w1"
  /\ socks[sends[c].wsock].st # "connecting"
  /\ IF sends[c].wfail \/ ~Writable(sends[c].wsock)
       THEN /\ sends' = [sends EXCEPT ![c].pc = "err", ![c].err = "Write failed"]
            /\ UNCHANGED <<socks, writes>>
       ELSE /\ sends' = [sends EXCEPT ![c].pc = "w2", ![c].wsock = socket,
                                      ![c].wfail = ~Accepts(socket)]
            /\ socks' = IF Accepts(socket)
                          THEN SocketWrite(socks, socket, JsonBuffer(sends[c].req))
                          ELSE socks
            /\ writes' = Append(writes, [sock |-> socket, call |-> c,
                                         part |-> "json",
                                         sent |-> Accepts(socket),
                                         bytes |-> JsonBuffer(sends[c].req)])
  /\ UNCHANGED <<kind, retryAttempts, socket, connected, dataBuffer,
                 pendingResponse, timers, conns, enclave, echo>>

\* the callback of socket.write(jsonBuffer, cb): writeMessage resolves and
\* sendRequest goes on to readMessage, readExactly(4)
UnixJsonWritten(c) ==
  /\ kind = "unix"
  /\ c \in 1..Len(sends)
  /\ sends[c].pc = "w2"
  /\ socks[sends[c].wsock].st # "connecting"
  /\ sends' = IF sends[c].wfail \/ ~Writable(sends[c].wsock)
                THEN [sends EXCEPT ![c].pc = "err", ![c].err = "Write failed"]
                ELSE [sends EXCEPT ![c].pc = "r4", ![c].frames = @ + 1]
  /\ UNCHANGED <<kind, retryAttempts, socket, connected, dataBuffer,
                 pendingResponse, socks, timers, conns, enclave, echo, writes>>

\* socket.read(n) on a socket record: [null, data, rest].  It answers null
\* unless n bytes are buffered, or the stream has ended and bytes remain
SocketRead(sk, n) ==
  IF Len(sk.rbuf) >= n
    THEN [null |-> FALSE, data |-> SubSeq(sk.rbuf, 1, n),
          rest |-> SubSeq(sk.rbuf, n + 1, Len(sk.rbuf))]
  ELSE IF sk.eof /\ Len(sk.rbuf) > 0
    THEN [null |-> FALSE, data |-> sk.rbuf, rest |-> <<>>]
  ELSE [null |-> TRUE, data |-> <<>>, rest |-> sk.rbuf]

\* whether readExactly(bytes) has filled its buffer
ReadComplete(offset, bytes) == ~(offset < bytes)

\* the end of readExactly(4): the length is read, and readExactly(length)
\* starts; with length 0 it returns at once and JSON.parse('') throws
AfterLength(rec, lengthBuffer) ==
  LET length == ReadUInt32BE(lengthBuffer) IN
  IF ReadComplete(0, length)
    THEN [rec EXCEPT !.pc = "err", !.err = "JSON parse failed",
                     !.lengthBuffer = lengthBuffer, !.length = length,
                     !.acc = <<>>]
    ELSE [rec EXCEPT !.pc = "rN", !.lengthBuffer = lengthBuffer,
                     !.length = length, !.acc = <<>>]

\* the end of readExactly(length): readMessage parses the message
AfterMessage(rec, messageBuffer) ==
  LET r == ParseMessage(messageBuffer) IN
  IF r.ok
    THEN [rec EXCEPT !.pc = "ok", !.resp = r.v, !.acc = messageBuffer]
    ELSE [rec EXCEPT !.pc = "err", !.err = "JSON parse failed",
                     !.acc = messageBuffer]

\* one turn of the loop of UnixSocketClient.readExactly: socket.read(bytes -
\* offset), then either the wait for 'readable' or the copy into the buffer
UnixReadExactly(c) ==
  /\ kind = "unix"
  /\ c \in 1..Len(sends)
  /\ sends[c].pc \in {"r4", "rN"}
  /\ socket # 0
  /\ LET rec == sends[c]
         bytes == IF rec.pc = "r4" THEN 4 ELSE rec.length
         chunk == SocketRead(socks[socket], bytes - Len(rec.acc))
         buffer == rec.acc \o chunk.data
     IN IF chunk.null
          THEN /\ sends' = [sends EXCEPT
                              ![c].pc = IF rec.pc = "r4" THEN "r4w" ELSE "rNw",
                              ![c].wsock = socket]
               /\ UNCHANGED socks
          ELSE /\ socks' = [socks EXCEPT ![socket].rbuf = chunk.rest]
               /\ sends' = [sends EXCEPT ![c] =
                    IF ~ReadComplete(Len(buffer), bytes)
                      THEN [rec EXCEPT !.acc = buffer]
                    ELSE IF rec.pc = "r4" THEN AfterLength(rec, buffer)
                    ELSE AfterMessage(rec, buffer)]
  /\ UNCHANGED <<kind, retryAttempts, socket, connected, dataBuffer,
                 pendingResponse, timers, conns, enclave, echo, writes>>

\* VsocketClient.writeMessage then readMessage on a connected client (the
\* body of the try block): one writeSync of length + message; a write that
\* throws leaves the call at its catch block
VsockTry(rec, c) ==
  IF socket # 0 /\ Writable(socket)
    THEN [rec EXCEPT !.pc = "read", !.wsock = socket, !.frames = @ + 1]
    ELSE [rec EXCEPT !.pc = "caught",
                     !.err = IF socket = 0 THEN "Socket not available"
                             ELSE "Write failed"]

\* what VsockTry writes and registers
VsockTryEffects(rec, c) ==
  IF socket # 0 /\ Writable(socket)
    THEN /\ socks' = SocketWrite(socks, socket,
                                 LengthBuffer(rec.req) \o JsonBuffer(rec.req))
         /\ writes' = Append(writes, [sock |-> socket, call |-> c,
                                      part |-> "frame", sent |-> TRUE,
                                      bytes |-> LengthBuffer(rec.req)
                                                \o JsonBuffer(rec.req)])
         /\ pendingResponse' = c
    ELSE UNCHANGED <<socks, writes, pendingResponse>>

(***************************************************************************)
(* Data on the wire.                                                       *)
(***************************************************************************)
\* what is left of a stream after its complete frames
RECURSIVE Residue(_)
Residue(stream) ==
  IF Len(stream) < 4 THEN stream
  ELSE LET l == stream[1] * 16777216 + stream[2] * 65536
                + stream[3] * 256 + stream[4]
       IN IF Len(stream) < 4 + l THEN stream
          ELSE Residue(SubSeq(stream, 5 + l, Len(stream)))

\* whether a stream ends inside the length prefix of a frame
EndsInPrefix(stream) == Len(Residue(stream)) \in 1..3

\* n bytes of what the client wrote on socket s reach the peer: MockEnclave's
\* 'data' handler runs (or, for an echoing peer, the bytes come back)
EnclaveData(s, n, now) ==
  /\ s \in 1..Len(socks)
  /\ n \in 1..Len(socks[s].toPeer)
  /\ socks[s].st = "open"
  /\ LET data == SubSeq(socks[s].toPeer, 1, n)
         rest == SubSeq(socks[s].toPeer, n + 1, Len(socks[s].toPeer))
         e == EnclaveLoop([buffer |-> socks[s].peerBuf \o data,
                           requestCount |-> enclave.requestCount,
                           received |-> enclave.received,
                           sent |-> <<>>], now)
     IN IF echo
          THEN /\ socks' = [socks EXCEPT ![s].toPeer = rest,
                                         ![s].toHost = @ \o data]
               /\ UNCHANGED enclave
          ELSE /\ socks' = [socks EXCEPT ![s].toPeer = rest,
                                         ![s].peerBuf = e.buffer,
                                         ![s].toHost = @ \o e.sent]
               /\ enclave' = [enclave EXCEPT !.requestCount = e.requestCount,
                                              !.received = e.received]
  /\ UNCHANGED <<kind, retryAttempts, socket, connected, dataBuffer,
                 pendingResponse, timers, conns, sends, echo, writes>>

\* a call whose promise handleData settled: sendRequest returns the response,
\* or lands in its catch block (first try) or rejects (retry)
Settle(rec, e) ==
  IF e.ok
    THEN [rec EXCEPT !.pc = "ok", !.resp = e.v, !.acc = e.bytes]
  ELSE IF rec.pc = "read"
    THEN [rec EXCEPT !.pc = "caught", !.err = "JSON parse failed"]
  ELSE [rec EXCEPT !.pc = "err", !.err = "JSON parse failed"]

\* n bytes of what the peer wrote on socket s reach the client.  VsocketClient:
\* the 'data' handler, handleData(chunk).  UnixSocketClient: the bytes enter
\* the stream's buffer and 'readable' wakes the readExactly loops waiting on s
SocketData(s, n) ==
  /\ s \in 1..Len(socks)
  /\ n \in 1..Len(socks[s].toHost)
  /\ socks[s].st = "open"
  /\ LET chunk == SubSeq(socks[s].toHost, 1, n)
         rest == SubSeq(socks[s].toHost, n + 1, Len(socks[s].toHost))
         h == HandleData(dataBuffer, pendingResponse, chunk)
     IN IF kind = "vsock"
          THEN /\ socks' = [socks EXCEPT
                              ![s].toHost = rest,
                              ![s].got = @ \o chunk,
                              ![s].split = @ \/ EndsInPrefix(socks[s].got \o chunk)]
               /\ dataBuffer' = h.buf
               /\ pendingResponse' = h.pend
               /\ sends' = [c \in 1..Len(sends) |->
                    IF \E i \in 1..Len(h.settled) : h.settled[i].call = c
                      THEN Settle(sends[c],
                             h.settled[CHOOSE i \in 1..Len(h.settled) :
                                         h.settled[i].call = c])
                      ELSE sends[c]]
          ELSE /\ socks' = [socks EXCEPT
                              ![s].toHost = rest,
                              ![s].got = @ \o chunk,
                              ![s].split = @ \/ EndsInPrefix(socks[s].got \o chunk),
                              ![s].rbuf = @ \o chunk]
               /\ sends' = [c \in 1..Len(sends) |->
                    IF sends[c].wsock = s /\ sends[c].pc = "r4w"
                      THEN [sends[c] EXCEPT !.pc = "r4"]
                    ELSE IF sends[c].wsock = s /\ sends[c].pc = "rNw"
                      THEN [sends[c] EXCEPT !.pc = "rN"]
                    ELSE sends[c]]
               /\ UNCHANGED <<dataBuffer, pendingResponse>>
  /\ UNCHANGED <<kind, retryAttempts, socket, connected, timers, conns,
                 enclave, echo, writes>>

(***************************************************************************)
(* connect(): retryWithBackoff around one socket-open attempt.             *)
(***************************************************************************)
\* the bounds of the lifecycle specification
MaxRetryAttempts == 2
MaxSockets == 3
MaxSends == 2
MaxConnects == 1
MaxFaults == 1

\* a test that lets another attempt follow the last one
OneMoreAttempt(attempt, maxAttempts) == attempt <= maxAttempts

\* the test of retryWithBackoff that another attempt follows a failed one
MoreAttempts(attempt, maxAttempts) == attempt < maxAttempts

\* the test of the connect timer's callback
TimerApplies(isConnected) == ~isConnected

\* whether the promise of attempt att of connect() call k is still pending
Pending(k, att) == conns[k].pc = "attempt" /\ conns[k].attempt = att

\* reject(...) of attempt att of call k with error why, cn being
\* this.connected: retryWithBackoff sleeps before the next attempt, or throws
\* the last error
Reject(k, att, why, cn) ==
  IF ~Pending(k, att) THEN conns
  ELSE IF MoreAttempts(att, retryAttempts)
    THEN [conns EXCEPT ![k].pc = "sleep", ![k].err = why]
  ELSE [conns EXCEPT ![k].pc = "err", ![k].err = why, ![k].seen = cn]

\* the sendRequest calls after connect() call k has settled as cs[k] says:
\* the call that awaits it goes on, or rejects with its error
Awaiters(cs, k) ==
  [c \in 1..Len(sends) |->
     IF cs[k].owner # c \/ sends[c].pc \notin {"conn", "reconn"} THEN sends[c]
     ELSE IF cs[k].pc = "ok"
       THEN [sends[c] EXCEPT !.pc = IF @ = "conn" THEN "go" ELSE "go2"]
     ELSE IF cs[k].pc = "err"
       THEN [sends[c] EXCEPT !.pc = "err", !.err = cs[k].err]
     ELSE sends[c]]

\* socket.destroy() on socket s of ss (s may be 0: this.socket?.destroy())
Destroy(ss, s) ==
  IF s # 0 /\ ss[s].st \in {"connecting", "open"}
    THEN [ss EXCEPT ![s].st = "destroyed"]
    ELSE ss

\* connect() called by `owner` (0: the application; c: sendRequest call c),
\* up to its first suspension, with ss the sockets, sk this.socket and cn
\* this.connected at the call: retryWithBackoff runs the first attempt, which
\* opens a socket, keeps it in this.socket and starts the timer.  With
\* retryAttempts < 1 the loop body never runs and `throw lastError` throws
\* undefined
StartConnect(owner, ss, sk, cn) ==
  LET k == Len(conns) + 1 IN
  IF retryAttempts < 1
    THEN /\ conns' = Append(conns, [owner |-> owner, pc |-> "err",
                                    attempt |-> 0, err |-> "undefined",
                                    opens |-> 0, seen |-> cn, sock |-> 0])
         /\ socks' = ss
         /\ socket' = sk
         /\ UNCHANGED timers
    ELSE /\ conns' = Append(conns, [owner |-> owner, pc |-> "attempt",
                                    attempt |-> 1, err |-> "",
                                    opens |-> 1, seen |-> FALSE, sock |-> 0])
         /\ socks' = Append(ss, NewSocket(k, 1))
         /\ socket' = Len(ss) + 1
         /\ timers' = Append(timers, [conn |-> k, att |-> 1])

\* the application calls connect()
Connect ==
  /\ Cardinality({k \in 1..Len(conns) : conns[k].owner = 0}) < MaxConnects
  /\ Len(socks) < MaxSockets
  /\ StartConnect(0, socks, socket, connected)
  /\ UNCHANGED <<kind, retryAttempts, connected, dataBuffer, pendingResponse,
                 sends, enclave, echo, writes>>

\* the 'connect' event of socket s: connected = true, resolve()
SocketConnect(s) ==
  /\ s \in 1..Len(socks)
  /\ socks[s].st = "connecting"
  /\ socks' = [socks EXCEPT ![s].st = "open", ![s].shook = TRUE]
  /\ connected' = TRUE
  /\ LET k == socks[s].conn
         cs == IF Pending(k, socks[s].att)
                 THEN [conns EXCEPT ![k].pc = "ok", ![k].seen = connected',
                                    ![k].sock = s]
                 ELSE conns
     IN /\ conns' = cs
        /\ sends' = Awaiters(cs, k)
  /\ UNCHANGED <<kind, retryAttempts, socket, dataBuffer, pendingResponse,
                 timers, enclave, echo, writes>>

\* the 'error' event of socket s: connected = false, reject(...); the
\* socket is destroyed and its 'close' event follows
SocketError(s) ==
  /\ s \in 1..Len(socks)
  /\ socks[s].st \in {"connecting", "open"}
  /\ enclave.faults < MaxFaults
  /\ enclave' = [enclave EXCEPT !.faults = @ + 1]
  /\ socks' = [socks EXCEPT ![s].st = "destroyed"]
  /\ connected' = FALSE
  /\ LET k == socks[s].conn
         cs == Reject(k, socks[s].att, "Connection failed", FALSE)
     IN /\ conns' = cs
        /\ sends' = Awaiters(cs, k)
  /\ UNCHANGED <<kind, retryAttempts, socket, dataBuffer, pendingResponse,
                 timers, echo, writes>>

\* a 'close' handler that leaves this.connected as it is
CloseHandlerKeeps(isConnected) == isConnected

\* the 'close' handler of connect(): this.connected = false
CloseHandler(isConnected) == FALSE

\* the 'close' event of socket s, after it was destroyed or after both
\* sides have closed: connected = false
SocketClose(s) ==
  /\ s \in 1..Len(socks)
  /\ \/ socks[s].st = "destroyed"
     \/ /\ socks[s].st = "open"
        /\ socks[s].ended \/ socks[s].eof
        /\ socks[s].toHost = <<>>
  /\ socks' = [socks EXCEPT ![s].st = "closed"]
  /\ connected' = CloseHandler(connected)
  /\ UNCHANGED <<kind, retryAttempts, socket, dataBuffer, pendingResponse,
                 timers, conns, sends, enclave, echo, writes>>

\* the connect timer that is due fires: if (!this.connected) the socket the
\* instance holds now is destroyed and the timer's attempt is rejected
Timeout ==
  /\ timers # <<>>
  /\ timers' = Tail(timers)
  /\ LET t == Head(timers) IN
     IF TimerApplies(connected)
       THEN LET cs == Reject(t.conn, t.att, "Connection timeout", connected)
            IN /\ socks' = Destroy(socks, socket)
               /\ conns' = cs
               /\ sends' = Awaiters(cs, t.conn)
       ELSE UNCHANGED <<socks, conns, sends>>
  /\ UNCHANGED <<kind, retryAttempts, socket, connected, dataBuffer,
                 pendingResponse, enclave, echo, writes>>

\* sleep(delay) of retryWithBackoff in connect() call k is over: the next
\* attempt opens a socket
SleepDone(k) ==
  /\ k \in 1..Len(conns)
  /\ conns[k].pc = "sleep"
  /\ Len(socks) < MaxSockets
  /\ conns' = [conns EXCEPT ![k].pc = "attempt", ![k].attempt = @ + 1,
                            ![k].opens = @ + 1]
  /\ socks' = Append(socks, NewSocket(k, conns[k].attempt + 1))
  /\ socket' = Len(socks) + 1
  /\ timers' = Append(timers, [conn |-> k, att |-> conns[k].attempt + 1])
  /\ UNCHANGED <<kind, retryAttempts, connected, dataBuffer, pendingResponse,
                 sends, enclave, echo, writes>>

\* what disconnect() reads and assigns: this.socket, this.connected, the
\* sockets, and whether the call has raised
ClientState ==
  [socket |-> socket, connected |-> connected, socks |-> socks,
   raised |-> FALSE]

\* socket.end() on socket s of ss: the client closes its side.  On a socket
\* that has ended, or was destroyed, it does nothing
End(ss, s) == [ss EXCEPT ![s].ended = TRUE]

\* a disconnect() without the test of this.socket: this.socket.end() raises
\* a TypeError when this.socket is undefined
EndUnguarded(st) ==
  IF st.socket = 0
    THEN [st EXCEPT !.raised = TRUE]
    ELSE [st EXCEPT !.socks = End(@, st.socket), !.connected = FALSE]

\* disconnect() on a client in state st: if (this.socket) { this.socket.end();
\* this.connected = false }
AfterDisconnect(st) ==
  IF st.socket # 0
    THEN [st EXCEPT !.socks = End(@, st.socket), !.connected = FALSE]
    ELSE st

\* disconnect()
Disconnect ==
  /\ socks' = AfterDisconnect(ClientState).socks
  /\ connected' = AfterDisconnect(ClientState).connected
  /\ UNCHANGED <<kind, retryAttempts, socket, dataBuffer, pendingResponse,
                 timers, conns, sends, enclave, echo, writes>>

\* the peer closes its side of socket s: the stream ends, which emits
\* 'readable' once more for a reader waiting in readExactly
PeerClose(s) ==
  /\ s \in 1..Len(socks)
  /\ socks[s].st = "open"
  /\ ~socks[s].eof
  /\ enclave.faults < MaxFaults
  /\ enclave' = [enclave EXCEPT !.faults = @ + 1]
  /\ socks' = [socks EXCEPT ![s].eof = TRUE]
  /\ sends' = [c \in 1..Len(sends) |->
       IF sends[c].wsock = s /\ sends[c].pc = "r4w"
         THEN [sends[c] EXCEPT !.pc = "r4"]
       ELSE IF sends[c].wsock = s /\ sends[c].pc = "rNw"
         THEN [sends[c] EXCEPT !.pc = "rN"]
       ELSE sends[c]]
  /\ UNCHANGED <<kind, retryAttempts, socket, connected, dataBuffer,
                 pendingResponse, timers, conns, echo, writes>>

\* a complete frame whose one-byte payload, "x", is not JSON
BadFrame == UInt32BE(1) \o <<120>>

\* the peer answers what it received on socket s with a frame that is not
\* JSON
PeerBadFrame(s) ==
  /\ s \in 1..Len(socks)
  /\ enclave.faults < MaxFaults
  /\ socks[s].st = "open"
  /\ socks[s].toPeer # <<>>
  /\ socks' = [socks EXCEPT ![s].toPeer = <<>>, ![s].toHost = @ \o BadFrame]
  /\ enclave' = [enclave EXCEPT !.faults = @ + 1]
  /\ UNCHANGED <<kind, retryAttempts, socket, connected, dataBuffer,
                 pendingResponse, timers, conns, sends, echo, writes>>

(***************************************************************************)
(* VsocketClient.sendRequest around connect().                             *)
(***************************************************************************)
\* sendRequest on a client that is not connected: await this.connect()
VsockSendDisconnected(req) ==
  LET c == Len(sends) + 1 IN
  /\ kind = "vsock"
  /\ NotConnected(connected, socket)
  /\ Len(socks) < MaxSockets
  /\ StartConnect(c, socks, socket, connected)
  /\ sends' = Append(sends, [NewSend(req) EXCEPT
                               !.conn = Len(conns) + 1,
                               !.pc = IF retryAttempts < 1 THEN "err" ELSE "conn",
                               !.err = IF retryAttempts < 1 THEN "undefined"
                                       ELSE ""])
  /\ UNCHANGED <<kind, retryAttempts, connected, dataBuffer, pendingResponse,
                 enclave, echo, writes>>

\* connect() has resolved: the try block
VsockResume(c) ==
  /\ c \in 1..Len(sends)
  /\ sends[c].pc = "go"
  /\ sends' = [sends EXCEPT ![c] = VsockTry(sends[c], c)]
  /\ VsockTryEffects(sends[c], c)
  /\ UNCHANGED <<kind, retryAttempts, socket, connected, dataBuffer, timers,
                 conns, enclave, echo>>

\* the catch block up to await this.connect(): connected = false, the socket
\* is destroyed and forgotten, connect() is called
VsockCatch(c) ==
  /\ c \in 1..Len(sends)
  /\ sends[c].pc = "caught"
  /\ Len(socks) < MaxSockets
  /\ connected' = FALSE
  /\ StartConnect(c, Destroy(socks, socket), 0, FALSE)
  /\ sends' = [sends EXCEPT
                 ![c].reconn = Len(conns) + 1,
                 ![c].pc = IF retryAttempts < 1 THEN "err" ELSE "reconn",
                 ![c].err = IF retryAttempts < 1 THEN "undefined" ELSE @]
  /\ UNCHANGED <<kind, retryAttempts, dataBuffer, pendingResponse, enclave,
                 echo, writes>>

\* the end of the catch block, after connect() has resolved: writeMessage
\* and readMessage once more, whose failure sendRequest rejects with
VsockRetry(c) ==
  /\ c \in 1..Len(sends)
  /\ sends[c].pc = "go2"
  /\ LET r == VsockTry(sends[c], c) IN
       sends' = [sends EXCEPT ![c] = IF r.pc = "read"
                                       THEN [r EXCEPT !.pc = "read2"]
                                       ELSE [r EXCEPT !.pc = "err"]]
  /\ VsockTryEffects(sends[c], c)
  /\ UNCHANGED <<kind, retryAttempts, socket, connected, dataBuffer, timers,
                 conns, enclave, echo>>

(***************************************************************************)
(* The framing specification: a connected client, one sendRequest call     *)
(* after another, any chunking of the bytes in both directions.            *)
(***************************************************************************)
\* VsocketClient.sendRequest on a connected client
VsockSendConnected(req) ==
  LET c == Len(sends) + 1 IN
  /\ kind = "vsock"
  /\ ~NotConnected(connected, socket)
  /\ sends' = Append(sends, VsockTry(NewSend(req), c))
  /\ VsockTryEffects(NewSend(req), c)
  /\ UNCHANGED <<kind, retryAttempts, socket, connected, dataBuffer, timers,
                 conns, enclave, echo>>

InitFrame ==
  /\ kind \in {"unix", "vsock"}
  /\ echo \in BOOLEAN
  /\ retryAttempts = 1
  /\ socket = 1
  /\ connected = TRUE
  /\ dataBuffer = <<>>
  /\ pendingResponse = 0
  /\ socks = <<[NewSocket(1, 1) EXCEPT !.st = "open", !.shook = TRUE]>>
  /\ timers = <<>>
  /\ conns = <<[owner |-> 0, pc |-> "ok", attempt |-> 1, err |-> "",
                opens |-> 1, seen |-> TRUE, sock |-> 1]>>
  /\ sends = <<>>
  /\ enclave = [requestCount |-> 0, received |-> <<>>, faults |-> 0]
  /\ writes = <<>>
  /\ operation = <<>>
  /\ retry = <<>>
  /\ endpoints = <<>>
  /\ submits = <<>>
  /\ queries = <<>>
  /\ checks = <<>>
  /\ http = <<>>
  /\ requestsProcessed = 0

\* the caller awaits each sendRequest before the next
FrameSend ==
  /\ Len(sends) < MaxFrameSends
  /\ \A c \in 1..Len(sends) : ~Outstanding(c)
  /\ \E req \in Requests(Len(sends) + 1) :
       \/ UnixSendRequest(req)
       \/ VsockSendConnected(req)

NextFrame ==
  \/ FrameSend /\ UNCHANGED utilVars
  \/ \E c \in 1..Len(sends) : UnixLengthWritten(c) /\ UNCHANGED utilVars
  \/ \E c \in 1..Len(sends) : UnixJsonWritten(c) /\ UNCHANGED utilVars
  \/ \E c \in 1..Len(sends) : UnixReadExactly(c) /\ UNCHANGED utilVars
  \/ \E s \in 1..Len(socks) : \E n \in ChunkSizes(Len(socks[s].toPeer)) :
       \E now \in EnclaveClock :
         EnclaveData(s, n, now) /\ UNCHANGED utilVars
  \/ \E s \in 1..Len(socks) : \E n \in ChunkSizes(Len(socks[s].toHost)) :
       SocketData(s, n) /\ UNCHANGED utilVars

SpecFrame == InitFrame /\ [][NextFrame]_vars
(***************************************************************************)
(* The claims about framing, under SpecFrame.                              *)
(***************************************************************************)
\* the value of four bytes read as an unsigned big-endian integer
BigEndian(b) == ((b[1] * 256 + b[2]) * 256 + b[3]) * 256 + b[4]

\* the frames of a stream, in order: [from, len] where the payload of the
\* frame is stream[from + 1 .. from + len]; an incomplete last frame is left out
RECURSIVE FramesFrom(_, _)
FramesFrom(stream, at) ==
  IF Len(stream) < at + 4 THEN <<>>
  ELSE LET l == BigEndian(SubSeq(stream, at + 1, at + 4)) IN
       IF Len(stream) < at + 4 + l THEN <<>>
       ELSE <<[from |-> at + 4, len |-> l]>> \o FramesFrom(stream, at + 4 + l)

\* the bytes of a unix client's stream that a readExactly loop holds
UnixHeld ==
  IF \E c \in 1..Len(sends) : sends[c].pc \in {"r4", "r4w"}
    THEN (LET c == CHOOSE c \in 1..Len(sends) : sends[c].pc \in {"r4", "r4w"}
          IN sends[c].acc)
  ELSE IF \E c \in 1..Len(sends) : sends[c].pc \in {"rN", "rNw"}
    THEN (LET c == CHOOSE c \in 1..Len(sends) : sends[c].pc \in {"rN", "rNw"}
          IN sends[c].lengthBuffer \o sends[c].acc)
  ELSE <<>>

\* the bytes received and not yet turned into a response
Retained == IF kind = "vsock" THEN dataBuffer ELSE UnixHeld \o socks[1].rbuf

Answered == {c \in 1..Len(sends) : sends[c].pc = "ok"}

\* C1: under every chunking of the response stream, a sendRequest call
\* returns only when the 4 length bytes and the L payload bytes of its frame
\* have all arrived; its response is parsed from exactly those L bytes; and
\* the bytes received are the frames answered so far followed by the bytes
\* retained: none is lost, none is used twice.
C1_PartialReadRobust ==
  LET got == socks[1].got
      frames == FramesFrom(got \o socks[1].toHost, 0)
      used == IF Answered = {} THEN 0
              ELSE LET f == frames[Cardinality(Answered)] IN f.from + f.len
  IN /\ Cardinality(Answered) <= Len(frames)
     /\ \A c \in Answered :
          /\ frames[c].from + frames[c].len <= Len(got)
          /\ sends[c].acc = SubSeq(got, frames[c].from + 1,
                                   frames[c].from + frames[c].len)
          /\ LET r == JsonParse(Utf8Decode(sends[c].acc)) IN
               r.ok /\ sends[c].resp = r.v
     /\ used <= Len(got)
     /\ Retained = SubSeq(got, used + 1, Len(got))

\* a call has returned a response whose length prefix arrived split over
\* two deliveries
C1_Witness ==
  \E c \in 1..Len(sends) :
    sends[c].pc = "ok" /\ socks[1].split /\ Len(sends[c].acc) > MaxChunk

\* deep equality of two values: properties that are undefined count as absent
RECURSIVE Norm(_)
Norm(v) ==
  IF v.t = "obj"
    THEN JObj([i \in 1..Len(Defined(v.kv)) |->
                 <<Defined(v.kv)[i][1], Norm(Defined(v.kv)[i][2])>>])
    ELSE v

DeepEqual(a, b) == Norm(a) = Norm(b)

\* the calls whose request frame has been written in full
Written == {c \in 1..Len(sends) : sends[c].frames > 0}

\* C2: the frame writeMessage(r) writes, delivered to a frame reader under any
\* chunking, decodes to an envelope deep-equal to r.  The reader is
\* MockEnclave's 'data' handler, and, with a peer that echoes the bytes, the
\* client's own response reader.
C2_FramingRoundTrip ==
  /\ \A c \in 1..Len(sends) : sends[c].err # "JSON parse failed"
  /\ ~echo =>
       /\ \A i \in 1..Len(enclave.received) :
            i <= Len(sends) /\ DeepEqual(enclave.received[i], sends[i].req)
       /\ (socks[1].toPeer = <<>> /\ \A c \in 1..Len(sends) : c \in Written)
            => Len(enclave.received) = Len(sends) /\ socks[1].peerBuf = <<>>
  /\ echo =>
       \A c \in Answered : DeepEqual(sends[c].resp, sends[c].req)

\* an echoed request with a two-byte character and an escaped quote has come
\* back and been parsed
C2_Witness ==
  /\ echo
  /\ \E c \in Answered :
       /\ Prop(sends[c].req, K_params) = JStr(<<233, 34>>)
       /\ socks[1].split

\* the bytes call c has written, in write order
RECURSIVE WrittenBy(_, _)
WrittenBy(c, ws) ==
  IF ws = <<>> THEN <<>>
  ELSE (IF Head(ws).call = c THEN Head(ws).bytes ELSE <<>>)
       \o WrittenBy(c, Tail(ws))

\* C3: what a sendRequest call writes is a 4-byte unsigned big-endian length,
\* equal to the number of bytes of the UTF-8 JSON of the request, followed by
\* exactly those bytes and nothing else.
C3_FrameLayout ==
  \A c \in 1..Len(sends) :
    LET w == WrittenBy(c, writes)
        payload == Utf8Encode(JsonStringify(sends[c].req))
    IN /\ Len(w) >= 4
       /\ BigEndian(SubSeq(w, 1, 4)) = Len(payload)
       /\ sends[c].pc # "w1" => SubSeq(w, 5, Len(w)) = payload
       /\ sends[c].pc = "w1" => Len(w) = 4

\* a frame whose payload has more bytes than characters has been written in
\* full
C3_Witness ==
  \E c \in Written :
    Len(JsonStringify(sends[c].req)) < Len(WrittenBy(c, writes)) - 4
(***************************************************************************)
(* The lifecycle specification: a client from its construction, with the  *)
(* application (main) and the HTTP route handler as callers; neither calls *)
(* disconnect().                                                           *)
(***************************************************************************)
\* the request createRequestHandler builds for the call-th POST
HttpRequests(call) == {TeeRequest(Uuid(call), S_ping, JObj(<<>>), 0)}

\* main() starts the HTTP server once its connect() call has resolved
Started == \E k \in 1..Len(conns) : conns[k].owner = 0 /\ conns[k].pc = "ok"

\* POST /api/v1/request: createRequestHandler builds the request and awaits
\* vsockClient.sendRequest(teeRequest)
HttpRequest ==
  /\ Started
  /\ Len(sends) < MaxSends
  /\ \E req \in HttpRequests(Len(sends) + 1) :
       \/ UnixSendRequest(req)
       \/ VsockSendConnected(req)
       \/ VsockSendDisconnected(req)

Init ==
  /\ kind \in {"unix", "vsock"}
  /\ echo = FALSE
  /\ retryAttempts \in 0..MaxRetryAttempts
  /\ socket = 0
  /\ connected = FALSE
  /\ dataBuffer = <<>>
  /\ pendingResponse = 0
  /\ socks = <<>>
  /\ timers = <<>>
  /\ conns = <<>>
  /\ sends = <<>>
  /\ enclave = [requestCount |-> 0, received |-> <<>>, faults |-> 0]
  /\ writes = <<>>
  /\ operation = <<>>
  /\ retry = <<>>
  /\ endpoints = <<>>
  /\ submits = <<>>
  /\ queries = <<>>
  /\ checks = <<>>
  /\ http = <<>>
  /\ requestsProcessed = 0

\* no continuation of a sendRequest call is ready to run: callbacks of
\* events and timers, and new calls, run only then
Idle ==
  \A c \in 1..Len(sends) : sends[c].pc \notin {"go", "caught", "go2", "r4", "rN"}

\* what the event loop does by itself: the continuations of sendRequest
\* calls first, then the callbacks it owes (timers, write callbacks, 'close'
\* after a destroy, the delivery of bytes in flight)
Loop ==
  \/ UNCHANGED utilVars /\ \E c \in 1..Len(sends) : UnixReadExactly(c)
  \/ UNCHANGED utilVars /\ \E c \in 1..Len(sends) : VsockResume(c)
  \/ UNCHANGED utilVars /\ \E c \in 1..Len(sends) : VsockCatch(c)
  \/ UNCHANGED utilVars /\ \E c \in 1..Len(sends) : VsockRetry(c)
  \/ UNCHANGED utilVars /\ Idle /\ Timeout
  \/ UNCHANGED utilVars /\ Idle /\ \E k \in 1..Len(conns) : SleepDone(k)
  \/ UNCHANGED utilVars /\ Idle /\ \E s \in 1..Len(socks) : SocketClose(s)
  \/ UNCHANGED utilVars /\ Idle
       /\ \E c \in 1..Len(sends) : UnixLengthWritten(c)
  \/ UNCHANGED utilVars /\ Idle
       /\ \E c \in 1..Len(sends) : UnixJsonWritten(c)
  \/ UNCHANGED utilVars /\ Idle
       /\ \E s \in 1..Len(socks) : \E now \in EnclaveClock :
            EnclaveData(s, Len(socks[s].toPeer), now)
  \/ UNCHANGED utilVars /\ Idle
       /\ \E s \in 1..Len(socks) : SocketData(s, Len(socks[s].toHost))

\* what the callers, the network and the peer may do
Outside ==
  \/ UNCHANGED utilVars /\ Idle /\ Connect
  \/ UNCHANGED utilVars /\ Idle /\ HttpRequest
  \/ UNCHANGED utilVars /\ Idle /\ \E s \in 1..Len(socks) : SocketConnect(s)
  \/ UNCHANGED utilVars /\ Idle /\ \E s \in 1..Len(socks) : SocketError(s)
  \/ UNCHANGED utilVars /\ Idle /\ \E s \in 1..Len(socks) : PeerClose(s)
  \/ UNCHANGED utilVars /\ Idle /\ \E s \in 1..Len(socks) : PeerBadFrame(s)

Next == Loop \/ Outside

Spec == Init /\ [][Next]_vars

\* the event loop has nothing left to do: no continuation is ready, no
\* timer or sleep is running, no write callback or 'close' event is owed and
\* no byte is in flight on an open socket.  No step of Loop is possible then
Quiet ==
  /\ Idle
  /\ timers = <<>>
  /\ \A k \in 1..Len(conns) : conns[k].pc # "sleep"
  /\ \A c \in 1..Len(sends) : sends[c].pc \notin {"w1", "w2"}
  /\ \A s \in 1..Len(socks) :
       /\ socks[s].st # "destroyed"
       /\ socks[s].st = "open" =>
            /\ socks[s].toPeer = <<>> /\ socks[s].toHost = <<>>
            /\ ~socks[s].ended /\ ~socks[s].eof

\* Quiet is what it says: from a Quiet state no step of Loop is possible
QuietIsQuiet == [][Quiet => ~Loop]_vars

(***************************************************************************)
(* The claims about calls and connections, under Spec.                     *)
(***************************************************************************)
\* C4: with the HTTP route handlers as callers, at most one sendRequest call
\* is outstanding on the client at any time.
C4_OneOutstanding ==
  Cardinality({c \in 1..Len(sends) : Outstanding(c)}) <= 1

\* C5: on one socket, the write after the write of a length prefix is the
\* write of the payload of the same call: no write of another call comes
\* between them.
C5_ContiguousFrame ==
  \A i \in 1..Len(writes) : \A j \in (i + 1)..Len(writes) :
    (/\ writes[i].part = "len" /\ writes[i].sent
     /\ writes[j].sent /\ writes[j].sock = writes[i].sock
     /\ \A m \in (i + 1)..(j - 1) :
          ~writes[m].sent \/ writes[m].sock # writes[i].sock)
    => writes[j].call = writes[i].call /\ writes[j].part = "json"

\* call c of VsocketClient awaits the response to a request it wrote on a
\* socket that has since failed (errored or closed)
ReadFailed(c) ==
  /\ kind = "vsock"
  /\ c <= Len(sends)
  /\ sends[c].pc = "read"
  /\ pendingResponse = c
  /\ socks[sends[c].wsock].st \in {"destroyed", "closed"}

\* C6: when the read of a sendRequest call of VsocketClient fails at the
\* socket level, the call goes on to its reconnect (connect(), then the
\* request once more): once the event loop has run everything it owed, no
\* such call is still in its first try.
C6_ReconnectOnFailure ==
  Quiet => \A c \in 1..Len(sends) : ~ReadFailed(c)

\* a call whose write failed has reconnected, re-sent its request once and
\* returned the response
C6_Witness ==
  \E c \in 1..Len(sends) :
    /\ sends[c].err = "Write failed"
    /\ sends[c].reconn # 0
    /\ sends[c].frames = 1
    /\ sends[c].pc = "ok"

\* C7: a call that received a complete frame whose payload is not JSON makes
\* no connect() call afterwards and writes its request once only.
C7_ParseFailureFinal ==
  \A c \in 1..Len(sends) :
    sends[c].err = "JSON parse failed"
      => sends[c].reconn = 0 /\ sends[c].frames <= 1

\* call c has written its request and waits for a response, none having
\* arrived in full, on a socket that has errored or closed
WaitsOnDeadSocket(c) ==
  /\ c <= Len(sends)
  /\ sends[c].frames >= 1
  /\ \/ sends[c].pc \in {"read", "read2"} /\ pendingResponse = c
     \/ sends[c].pc \in {"r4w", "rNw"}
  /\ socks[sends[c].wsock].st \in {"destroyed", "closed"}

\* C8: a call that waits for its response on a socket that has errored or
\* closed fails: once the event loop has run everything it owed (the
\* socket's 'error' and 'close' handlers among it), no such call is still
\* waiting.
C8_FailsWhenSocketDies ==
  Quiet => \A c \in 1..Len(sends) : WaitsOnDeadSocket(c) => sends[c].pc = "err"

\* a socket handle the instance has opened and neither closed nor destroyed
Live(s) == socks[s].st \in {"connecting", "open"} /\ ~socks[s].ended

\* C9: the instance holds at most one live socket handle.
C9_OneLiveSocket ==
  Cardinality({s \in 1..Len(socks) : Live(s)}) <= 1

\* C10: a connect() call opens at most retryAttempts sockets; when it has
\* resolved, the socket of its last attempt had completed its handshake and
\* connected was true at that moment; when it has rejected after at least
\* one attempt, every attempt was made, the error is the VsocketError of a
\* failed connection or a timeout, and connected was false at that moment.
C10_ConnectContract ==
  \A k \in 1..Len(conns) :
    /\ conns[k].opens <= retryAttempts
    /\ Cardinality({s \in 1..Len(socks) : socks[s].conn = k}) = conns[k].opens
    /\ conns[k].pc = "ok" =>
         /\ conns[k].seen
         /\ conns[k].sock # 0
         /\ socks[conns[k].sock].conn = k
         /\ socks[conns[k].sock].att = conns[k].attempt
         /\ socks[conns[k].sock].shook
    /\ (conns[k].pc = "err" /\ retryAttempts >= 1) =>
         /\ ~conns[k].seen
         /\ conns[k].opens = retryAttempts
         /\ conns[k].err \in {"Connection failed", "Connection timeout"}

\* a connect() call has rejected after its last attempt timed out, an
\* earlier attempt having failed
C10_Witness ==
  \E k \in 1..Len(conns) :
    /\ conns[k].pc = "err"
    /\ conns[k].opens = MaxRetryAttempts
    /\ conns[k].err = "Connection timeout"

(***************************************************************************)
(* The claims about the connect timer and unsolicited closure, under Spec. *)
(***************************************************************************)
\* the timer that is due belongs to an attempt that is still pending and
\* whose socket s has not completed its handshake
TimerDueFor(s) ==
  /\ timers # <<>>
  /\ socks[s].conn = Head(timers).conn
  /\ socks[s].att = Head(timers).att
  /\ socks[s].st = "connecting"
  /\ Pending(Head(timers).conn, Head(timers).att)

\* C11: when the timer of a connect attempt fires and the handshake of that
\* attempt has not completed, the attempt's socket is destroyed and the
\* attempt fails with the timeout error: the retry sleeps before the next
\* attempt or connect() rejects with it.
C11_TimeoutBoundsAttempt ==
  [][\A s \in 1..Len(socks) :
       (TimerDueFor(s) /\ Len(timers') < Len(timers))
         => /\ socks'[s].st = "destroyed"
            /\ conns'[socks[s].conn].pc \in {"sleep", "err"}
            /\ conns'[socks[s].conn].err = "Connection timeout"]_vars

\* an attempt has timed out in the way C11 says: its socket was destroyed
\* before any handshake and the retry sleeps before the next attempt
C11_Witness ==
  \E k \in 1..Len(conns) : \E s \in 1..Len(socks) :
    /\ conns[k].pc = "sleep"
    /\ conns[k].err = "Connection timeout"
    /\ socks[s].conn = k /\ socks[s].att = conns[k].attempt
    /\ socks[s].st = "destroyed" /\ ~socks[s].shook

\* a step that opens a socket belongs to a connect() call in progress: the
\* first attempt of a call just made by the application or by a sendRequest
\* call that awaits it, or the next attempt of such a call after its sleep
OpensInsideCall ==
  \/ /\ Len(conns') = Len(conns) + 1
     /\ LET o == conns'[Len(conns')].owner IN
          o = 0 \/ sends'[o].pc \in {"conn", "reconn"}
  \/ \E k \in 1..Len(conns) :
       /\ conns[k].pc = "sleep" /\ conns'[k].pc = "attempt"
       /\ conns[k].owner = 0 \/ sends[conns[k].owner].pc \in {"conn", "reconn"}

\* C12: when the peer has closed a connected socket, the 'close' event of
\* that socket leaves connected false; neither the peer's closing nor the
\* 'close' event opens a socket or starts a connect() call; and every socket
\* the client opens is opened by a connect() or sendRequest call in progress.
C12_NoReconnectOnClose ==
  [][/\ \A s \in 1..Len(socks) :
          (socks[s].shook /\ socks[s].eof /\ socks[s].st = "open"
             /\ socks'[s].st = "closed")
            => ~connected' /\ Len(socks') = Len(socks) /\ conns' = conns
     /\ \A s \in 1..Len(socks) :
          (~socks[s].eof /\ socks'[s].eof)
            => Len(socks') = Len(socks) /\ conns' = conns
     /\ Len(socks') > Len(socks) => OpensInsideCall]_vars

\* the peer has closed the socket of a connected client; its 'close' event
\* has come, connected is false, the event loop has nothing left to do, and
\* no socket has been opened since
C12_Witness ==
  \E s \in 1..Len(socks) :
    /\ socks[s].shook /\ socks[s].eof /\ socks[s].st = "closed"
    /\ socket = s /\ Len(socks) = s
    /\ conns[socks[s].conn].pc = "ok"
    /\ ~connected
    /\ Quiet

(***************************************************************************)
(* The claims about sendRequest on a client that is not connected and      *)
(* about disconnect().                                                     *)
(***************************************************************************)
\* call c has written something
HasWritten(c, ws) == \E i \in 1..Len(ws) : ws[i].call = c

\* C13: a sendRequest call made while the client is not connected.
\* UnixSocketClient: the call fails with the VsocketError "Not connected to
\* enclave", writes nothing and changes nothing of the client.
\* VsocketClient: the call calls connect() before anything else and writes
\* nothing in that step; it has written only if that connect() call
\* resolved, and when that connect() call rejected the call has failed with
\* the same error without having written.
C13_SendNotConnected ==
  [][/\ (Len(sends') = Len(sends) + 1 /\ (~connected \/ socket = 0))
          => LET c == Len(sends') IN
             IF kind = "unix"
               THEN /\ sends'[c].pc = "err"
                    /\ sends'[c].err = "Not connected to enclave"
                    /\ UNCHANGED <<socket, connected, dataBuffer,
                                   pendingResponse, socks, timers, conns,
                                   writes>>
               ELSE /\ Len(conns') = Len(conns) + 1
                    /\ conns'[Len(conns')].owner = c
                    /\ sends'[c].conn = Len(conns')
                    /\ writes' = writes
     /\ \A c \in 1..Len(sends') :
          sends'[c].conn # 0 =>
            LET k == conns'[sends'[c].conn] IN
            /\ HasWritten(c, writes') => k.pc = "ok"
            /\ k.pc = "err" => /\ sends'[c].pc = "err"
                               /\ sends'[c].err = k.err
                               /\ sends'[c].frames = 0]_vars

\* a sendRequest call of VsocketClient made while the client was not
\* connected has called connect(), written its request after connect()
\* resolved, and returned the response
C13_Witness ==
  \E c \in 1..Len(sends) :
    /\ sends[c].conn # 0
    /\ conns[sends[c].conn].pc = "ok"
    /\ HasWritten(c, writes)
    /\ sends[c].pc = "ok"

\* the number of disconnect() calls in a row the claim is checked for
MaxDisconnects == 3

\* the lifecycle with a caller that calls connect() and disconnect() and
\* makes no sendRequest call
NextDisconnect ==
  \/ UNCHANGED utilVars /\ Connect
  \/ UNCHANGED utilVars /\ Disconnect
  \/ UNCHANGED utilVars /\ \E s \in 1..Len(socks) : SocketConnect(s)
  \/ UNCHANGED utilVars /\ \E s \in 1..Len(socks) : SocketError(s)
  \/ UNCHANGED utilVars /\ \E s \in 1..Len(socks) : PeerClose(s)
  \/ UNCHANGED utilVars /\ \E s \in 1..Len(socks) : SocketClose(s)
  \/ UNCHANGED utilVars /\ \E k \in 1..Len(conns) : SleepDone(k)
  \/ UNCHANGED utilVars /\ Timeout

SpecDisconnect == Init /\ [][NextDisconnect]_vars

\* the state after n disconnect() calls in a row on a client in state st
RECURSIVE Disconnects(_, _)
Disconnects(st, n) ==
  IF n = 0 THEN st ELSE AfterDisconnect(Disconnects(st, n - 1))

\* C14: in whatever state the client is (never connected, connecting,
\* connected, disconnected, its socket closed or destroyed), disconnect()
\* does not raise and leaves isConnected() false, and n >= 1 calls in a row
\* leave the state one call leaves.
C14_DisconnectIdempotent ==
  LET once == AfterDisconnect(ClientState) IN
  /\ ~once.raised
  /\ ~once.connected
  /\ \A n \in 1..MaxDisconnects : Disconnects(ClientState, n) = once

\* disconnect() has been called on a connected client: the client has closed
\* its side of the socket, which had completed its handshake, and
\* isConnected() is false
C14_Witness ==
  /\ socket # 0
  /\ socks[socket].shook /\ socks[socket].ended
  /\ socks[socket].st = "open"
  /\ ~connected

(***************************************************************************)
(* retryWithBackoff on its own: two calls with the same operation and the  *)
(* same options, the first without onRetry, the second with one.           *)
(***************************************************************************)
\* the largest options.maxAttempts
MaxAttempts == 3

\* the values of options.delayMs and options.backoffMultiplier
DelaysMs == {1, 3}
Multipliers == {1, 2, 3}

\* what options.onRetry does when it is supplied
Observers == {"returns", "throws"}

\* undefined, as the value of lastError before any failure
NoError == [by |-> "nobody", n |-> 0]

\* the error the n-th invocation of the operation rejects with; the error
\* onRetry throws when called for attempt n
OperationError(n) == [by |-> "operation", n |-> n]
ObserverError(n) == [by |-> "onRetry", n |-> n]

\* the history of a call: the invocations of the operation, the calls of
\* onRetry with their arguments, the sleeps with their delay
Invoked(n) == [what |-> "operation", n |-> n, error |-> NoError]
Observed(n, e) == [what |-> "onRetry", n |-> n, error |-> e]
Slept(ms) == [what |-> "sleep", n |-> ms, error |-> NoError]

\* a retryWithBackoff call that has just been made
NewRetry(maxAttempts, delayMs, backoffMultiplier, onRetry) ==
  [maxAttempts |-> maxAttempts, delayMs |-> delayMs,
   backoffMultiplier |-> backoffMultiplier, onRetry |-> onRetry,
   pc |-> "new", attempt |-> 0, delay |-> 0, lastError |-> NoError,
   events |-> <<>>, result |-> 0, error |-> NoError]

\* a loop test that leaves the last attempt out
Below(attempt, maxAttempts) == attempt < maxAttempts

\* the loop test: attempt <= options.maxAttempts
WithinAttempts(attempt, maxAttempts) == attempt <= maxAttempts

\* an error wrapped into another one
Wrapped(lastError) == [by |-> "retryWithBackoff", n |-> lastError.n]

\* throw lastError
Thrown(lastError) == lastError

\* a delay that grows by addition
LinearDelay(delay, backoffMultiplier) == delay + backoffMultiplier

\* delay *= options.backoffMultiplier
NextDelay(delay, backoffMultiplier) == delay * backoffMultiplier

\* the head of the loop with attempt = a in call r: the loop test, then the
\* invocation of the operation, or `throw lastError` after the loop
Attempt(r, a) ==
  IF WithinAttempts(a, r.maxAttempts)
    THEN [r EXCEPT !.pc = "await", !.attempt = a,
                   !.events = Append(@, Invoked(a))]
    ELSE [r EXCEPT !.pc = "thrown", !.attempt = a,
                   !.error = Thrown(r.lastError)]

\* the catch block of call r after its invocation has rejected with e
Catch(r, e) ==
  IF ~MoreAttempts(r.attempt, r.maxAttempts)
    THEN Attempt([r EXCEPT !.lastError = e], r.attempt + 1)
  ELSE IF r.onRetry = "none"
    THEN [r EXCEPT !.lastError = e, !.pc = "sleep",
                   !.events = Append(@, Slept(r.delay))]
  ELSE IF r.onRetry = "returns"
    THEN [r EXCEPT !.lastError = e, !.pc = "sleep",
                   !.events = @ \o <<Observed(r.attempt, e), Slept(r.delay)>>]
  ELSE [r EXCEPT !.lastError = e, !.pc = "thrown",
                 !.events = Append(@, Observed(r.attempt, e)),
                 !.error = ObserverError(r.attempt)]

\* what the n-th invocation of the operation does
Outcome(n) == IF n \in DOMAIN operation THEN operation[n] ELSE "rejects"

\* retryWithBackoff(operation, options) is called: lastError, delay, and the
\* first pass of the loop up to `await operation()`
RetryCall(i) ==
  /\ retry[i].pc = "new"
  /\ retry' = [retry EXCEPT ![i] =
                 Attempt([retry[i] EXCEPT !.delay = retry[i].delayMs], 1)]
  /\ UNCHANGED <<clientVars, operation, l3Vars, apiVars>>

\* the promise of the invocation in progress settles: `return` its value,
\* or the catch block and what follows it up to the next await
OperationSettles(i) ==
  /\ retry[i].pc = "await"
  /\ retry' = [retry EXCEPT ![i] =
                 IF Outcome(retry[i].attempt) = "resolves"
                   THEN [retry[i] EXCEPT !.pc = "returned",
                                         !.result = retry[i].attempt]
                   ELSE Catch(retry[i], OperationError(retry[i].attempt))]
  /\ UNCHANGED <<clientVars, operation, l3Vars, apiVars>>

\* sleep(delay) is over: delay *= backoffMultiplier, attempt++, and the next
\* pass of the loop
RetrySleepDone(i) ==
  /\ retry[i].pc = "sleep"
  /\ retry' = [retry EXCEPT ![i] =
                 Attempt([retry[i] EXCEPT !.delay =
                            NextDelay(@, retry[i].backoffMultiplier)],
                         retry[i].attempt + 1)]
  /\ UNCHANGED <<clientVars, operation, l3Vars, apiVars>>

\* a transport client as its constructor leaves it
Constructed ==
  /\ socket = 0
  /\ connected = FALSE
  /\ dataBuffer = <<>>
  /\ pendingResponse = 0
  /\ socks = <<>>
  /\ timers = <<>>
  /\ conns = <<>>
  /\ sends = <<>>
  /\ enclave = [requestCount |-> 0, received |-> <<>>, faults |-> 0]
  /\ writes = <<>>

InitRetry ==
  /\ kind = "unix" /\ echo = FALSE /\ retryAttempts = 1
  /\ Constructed
  /\ operation \in [1..MaxAttempts -> {"resolves", "rejects"}]
  /\ \E m \in 0..MaxAttempts : \E d \in DelaysMs : \E b \in Multipliers :
       \E cb \in Observers :
         retry = <<NewRetry(m, d, b, "none"), NewRetry(m, d, b, cb)>>
  /\ endpoints = <<>>
  /\ submits = <<>>
  /\ queries = <<>>
  /\ checks = <<>>
  /\ http = <<>>
  /\ requestsProcessed = 0

NextRetry ==
  \/ \E i \in DOMAIN retry : RetryCall(i)
  \/ \E i \in DOMAIN retry : OperationSettles(i)
  \/ \E i \in DOMAIN retry : RetrySleepDone(i)

SpecRetry == InitRetry /\ [][NextRetry]_vars

(***************************************************************************)
(* The claims about retryWithBackoff, under SpecRetry.                     *)
(***************************************************************************)
\* the events of one kind in a history, in order
RECURSIVE Only(_, _)
Only(ev, what) ==
  IF ev = <<>> THEN <<>>
  ELSE (IF Head(ev).what = what THEN <<Head(ev)>> ELSE <<>>)
       \o Only(Tail(ev), what)

Invocations(r) == Len(Only(r.events, "operation"))

Ended(r) == r.pc \in {"returned", "thrown"}

\* the operation fails at each of its first n invocations
FailsUpTo(n) == \A j \in 1..n : Outcome(j) = "rejects"

\* the calls whose onRetry, if any, returns
Plain == {i \in DOMAIN retry : retry[i].onRetry # "throws"}

\* C15: with maxAttempts >= 1 and an operation that fails at every
\* invocation, the operation is never invoked more than maxAttempts times,
\* and the call ends by rejecting, after exactly maxAttempts invocations,
\* with the error of the last invocation itself.
C15_ExhaustsThenThrowsLast ==
  \A i \in Plain :
    LET r == retry[i] IN
    (r.maxAttempts >= 1 /\ FailsUpTo(r.maxAttempts)) =>
      /\ Invocations(r) <= r.maxAttempts
      /\ r.pc # "returned"
      /\ r.pc = "thrown" =>
           /\ Invocations(r) = r.maxAttempts
           /\ r.error = OperationError(r.maxAttempts)

\* a call with maxAttempts = MaxAttempts has rejected after that many
\* failed invocations
C15_Witness ==
  \E i \in Plain :
    /\ retry[i].maxAttempts = MaxAttempts
    /\ retry[i].pc = "thrown"
    /\ Invocations(retry[i]) = MaxAttempts

\* the k-th invocation of the operation is the first that succeeds
FirstSuccess(k) == Outcome(k) = "resolves" /\ FailsUpTo(k - 1)

\* C16: when the first invocation to succeed is the k-th, k <= maxAttempts,
\* the call never throws and never invokes the operation more than k times;
\* the step in which that invocation resolves is the return itself, with no
\* sleep and no onRetry call in it; the call has then returned the value of
\* the k-th invocation after exactly k invocations, the last event of the
\* call being that invocation; and nothing happens in the call afterwards.
C16_ReturnsAtFirstSuccess ==
  [][\A i \in Plain : \A k \in 1..retry[i].maxAttempts :
       FirstSuccess(k) =>
         /\ Invocations(retry'[i]) <= k
         /\ retry'[i].pc # "thrown"
         /\ (retry[i].pc = "await" /\ retry[i].attempt = k
               /\ retry'[i] # retry[i])
              => /\ retry'[i].pc = "returned"
                 /\ retry'[i].events = retry[i].events
         /\ retry'[i].pc = "returned"
              => /\ Invocations(retry'[i]) = k
                 /\ retry'[i].result = k
                 /\ retry'[i].events[Len(retry'[i].events)] = Invoked(k)
         /\ retry[i].pc = "returned" => retry'[i] = retry[i]]_vars

\* a call has returned the value of its third invocation, the first two
\* having failed
C16_Witness ==
  \E i \in Plain :
    /\ retry[i].pc = "returned"
    /\ retry[i].result = 3
    /\ Invocations(retry[i]) = 3
    /\ FailsUpTo(2)

\* the invocations and the sleeps of a history, in order
RECURSIVE Timeline(_)
Timeline(ev) ==
  IF ev = <<>> THEN <<>>
  ELSE (IF Head(ev).what = "onRetry" THEN <<>> ELSE <<Head(ev)>>)
       \o Timeline(Tail(ev))

RECURSIVE Pow(_, _)
Pow(b, e) == IF e = 0 THEN 1 ELSE b * Pow(b, e - 1)

\* 1 + b + ... + b^(m-1)
RECURSIVE GeometricSum(_, _)
GeometricSum(b, m) == IF m = 0 THEN 0 ELSE GeometricSum(b, m - 1) + Pow(b, m - 1)

\* the time slept in a history, in ms
RECURSIVE TotalSlept(_)
TotalSlept(ev) ==
  IF ev = <<>> THEN 0
  ELSE (IF Head(ev).what = "sleep" THEN Head(ev).n ELSE 0)
       + TotalSlept(Tail(ev))

\* C17: the invocations and the sleeps of a call alternate, starting with
\* invocation 1; the sleep after invocation k lasts
\* delayMs * backoffMultiplier^(k-1); there are fewer sleeps than
\* maxAttempts, so none with maxAttempts = 1; a call that awaits an
\* invocation or has ended has an invocation as its last of these events, so
\* no sleep follows the final attempt; and after m sleeps the call has slept
\* delayMs * (1 + mult + ... + mult^(m-1)) in total.
C17_BackoffSchedule ==
  \A i \in Plain :
    LET r == retry[i]
        tl == Timeline(r.events)
        m == Len(Only(r.events, "sleep"))
    IN /\ \A p \in 1..Len(tl) :
            IF p % 2 = 1
              THEN tl[p] = Invoked((p + 1) \div 2)
              ELSE tl[p] = Slept(r.delayMs
                                   * Pow(r.backoffMultiplier, (p \div 2) - 1))
       /\ m = 0 \/ m < r.maxAttempts
       /\ r.pc \in {"await", "returned", "thrown"} =>
            tl = <<>> \/ tl[Len(tl)].what = "operation"
       /\ TotalSlept(r.events)
            = r.delayMs * GeometricSum(r.backoffMultiplier, m)

\* a call with delayMs = 3, backoffMultiplier = 2 and maxAttempts = 3 has
\* slept 3 ms, then 6 ms, and has thrown after its third invocation without
\* sleeping again
C17_Witness ==
  \E i \in Plain :
    /\ retry[i].maxAttempts = 3
    /\ Only(retry[i].events, "sleep") = <<Slept(3), Slept(6)>>
    /\ retry[i].pc = "thrown"
    /\ TotalSlept(retry[i].events) = 9

\* the sleeps of a history, in order
Sleeps(r) == Only(r.events, "sleep")

\* C18: of two calls with the same operation and the same options, one
\* without onRetry and one with an onRetry that returns or raises, once both
\* have ended: they have invoked the operation as many times, have slept
\* the same delays, and have ended the same way, with the same result or
\* the same error.
C18_ObserverIsInert ==
  (Ended(retry[1]) /\ Ended(retry[2])) =>
    /\ Invocations(retry[2]) = Invocations(retry[1])
    /\ Sleeps(retry[2]) = Sleeps(retry[1])
    /\ retry[2].pc = retry[1].pc
    /\ retry[2].result = retry[1].result
    /\ retry[2].error = retry[1].error

\* both calls have ended, the one with an onRetry that returns having called
\* it after each of two failures with the attempt number and the error, and
\* they agree on invocations, sleeps and result
C18_Witness ==
  /\ Ended(retry[1]) /\ Ended(retry[2])
  /\ Only(retry[2].events, "onRetry")
       = <<Observed(1, OperationError(1)), Observed(2, OperationError(2))>>
  /\ Invocations(retry[2]) = Invocations(retry[1])
  /\ Sleeps(retry[2]) = Sleeps(retry[1])
  /\ retry[2].pc = "returned" /\ retry[1].pc = "returned"
  /\ retry[2].result = retry[1].result

(***************************************************************************)
(* L3Client.submitAttestation on its own: a list of guardian endpoints,    *)
(* each of which does the same to every POST it receives.                  *)
(***************************************************************************)
\* the largest number of config.endpoints and of submitAttestation calls
MaxEndpoints == 3
MaxSubmits == 2

\* what a request to an endpoint does: a 2xx response with the expected
\* properties in its body, no response (network error or timeout), a
\* response with another status, a 2xx response whose body is null, or a 2xx
\* response whose body is not JSON or is JSON without the expected
\* properties
Behaviours == {"accepts", "network", "status", "unparsable", "malformed"}

\* whether the try block runs to its return: axios resolves for a 2xx
\* status, leaving a body that is not JSON as a string, and reading a
\* property of a string or of an object never throws
Resolves(behaviour) == behaviour \in {"accepts", "malformed"}

\* one value a template literal substitutes into a message: the message of
\* an error, a literal, or a number
MessageOf(e) == [of |-> "message", text |-> e.text, n |-> e.at]
TextOf(s) == [of |-> "literal", text |-> s, n |-> 0]
CountOf(n) == [of |-> "count", text |-> "", n |-> n]

\* undefined, as the value of lastError before any failure
NoL3Error == [name |-> "undefined", text |-> "", parts |-> <<>>, at |-> 0]

\* the error the POST to endpoint i throws: axios rejects with an AxiosError
\* when there is no response or the status is not 2xx; reading a property of
\* a null body raises a TypeError
EndpointError(i, behaviour) ==
  IF behaviour = "network"
    THEN [name |-> "AxiosError", text |-> "Network Error", parts |-> <<>>,
          at |-> i]
  ELSE IF behaviour = "status"
    THEN [name |-> "AxiosError",
          text |-> "Request failed with status code 500", parts |-> <<>>,
          at |-> i]
  ELSE [name |-> "TypeError",
        text |-> "Cannot read properties of null", parts |-> <<>>, at |-> i]

\* new L3Error(`All guardians unreachable: ${lastError?.message || 'unknown
\* error'}`)
AllUnreachable(lastError) ==
  [name |-> "L3Error", text |-> "All guardians unreachable: ",
   parts |-> <<IF lastError = NoL3Error \/ lastError.text = ""
                 THEN TextOf("unknown error")
                 ELSE MessageOf(lastError)>>,
   at |-> 0]

\* the attestation_id endpoint i answers with
AttestationId(i) == 100 + i

\* response.data of an endpoint that accepts
Body(i) ==
  [attestation_id |-> AttestationId(i),
   submission_time |-> "2024-01-01T00:00:00.000Z", status |-> "pending"]

\* response.data without any of the properties read from it: each read
\* gives undefined, for which 0 and "undefined" stand
EmptyBody ==
  [attestation_id |-> 0, submission_time |-> "undefined",
   status |-> "undefined"]

\* response.data of the POST to endpoint i when it resolves
ResponseData(i, behaviour) ==
  IF behaviour = "accepts" THEN Body(i) ELSE EmptyBody

\* new Date(s): the time value, in seconds, -1 standing for an invalid date
NewDate(s) == IF s = "2024-01-01T00:00:00.000Z" THEN 1704067200 ELSE -1

\* the AttestationSubmission built from response.data
Submission(data) ==
  [attestationId |-> data.attestation_id,
   submissionTime |-> NewDate(data.submission_time),
   status |-> data.status]

NoSubmission == [attestationId |-> 0, submissionTime |-> 0, status |-> ""]

\* a submitAttestation call that has just been made
NewSubmit ==
  [pc |-> "new", index |-> 0, lastError |-> NoL3Error, posts |-> <<>>,
   result |-> NoSubmission, error |-> NoL3Error]

\* an iteration that leaves one endpoint out
SkipEndpoint(i) == i + 2

\* the endpoint `for (const endpoint of this.config.endpoints)` goes on to
NextEndpoint(i) == i + 1

\* the head of the loop at endpoint i in call r: await axios.post(...), or
\* the throw after the loop
TryEndpoint(r, i) ==
  IF i <= Len(endpoints)
    THEN [r EXCEPT !.pc = "await", !.index = i, !.posts = Append(@, i)]
    ELSE [r EXCEPT !.pc = "thrown", !.index = i,
                   !.error = AllUnreachable(r.lastError)]

\* a loop that starts at the endpoint that answered the latest of the
\* earlier calls to return
StickyEndpoint(earlier) ==
  LET done == {c \in 1..Len(earlier) : earlier[c].pc = "returned"}
  IN IF done = {} THEN 1
     ELSE earlier[CHOOSE c \in done : \A d \in done : d <= c].index

\* where `for (const endpoint of this.config.endpoints)` starts in a call
\* made after the calls `earlier`: at the first element of the list, the
\* instance keeping nothing but its config
FirstEndpoint(earlier) == 1

\* submitAttestation(bundle) is called: the payload, lastError, and the
\* first pass of the loop up to its await
SubmitAttestation ==
  /\ Len(submits) < MaxSubmits
  /\ submits' = Append(submits, TryEndpoint(NewSubmit, FirstEndpoint(submits)))
  /\ UNCHANGED <<clientVars, retryVars, apiVars, endpoints, queries, checks>>

\* the POST in flight of call c settles: the submission is built and
\* returned, or the catch block and the next pass of the loop
PostSettles(c) ==
  /\ submits[c].pc = "await"
  /\ LET r == submits[c]
         behaviour == endpoints[r.index]
     IN submits' = [submits EXCEPT ![c] =
          IF Resolves(behaviour)
            THEN [r EXCEPT !.pc = "returned",
                           !.result =
                             Submission(ResponseData(r.index, behaviour))]
            ELSE TryEndpoint(
                   [r EXCEPT !.lastError = EndpointError(r.index, behaviour)],
                   NextEndpoint(r.index))]
  /\ UNCHANGED <<clientVars, retryVars, apiVars, endpoints, queries, checks>>

\* the largest number of queryConsensusStatus calls
MaxQueries == 1

\* response.data of the GET of the status of an attestation at endpoint i
StatusBody(i) ==
  [attestation_id |-> AttestationId(i), status |-> "pending",
   guardians_verified |-> i, total_guardians |-> 3]

\* response.data without any of the properties read from it
EmptyStatusBody ==
  [attestation_id |-> 0, status |-> "undefined", guardians_verified |-> 0,
   total_guardians |-> 0]

\* response.data of the GET to endpoint i when it resolves
StatusData(i, behaviour) ==
  IF behaviour = "accepts" THEN StatusBody(i) ELSE EmptyStatusBody

\* the ConsensusStatus built from response.data
ConsensusStatus(data) ==
  [attestationId |-> data.attestation_id, status |-> data.status,
   guardiansVerified |-> data.guardians_verified,
   totalGuardians |-> data.total_guardians]

NoStatus ==
  [attestationId |-> 0, status |-> "", guardiansVerified |-> 0,
   totalGuardians |-> 0]

\* new L3Error('Failed to query consensus status from all guardians')
QueryFailed ==
  [name |-> "L3Error",
   text |-> "Failed to query consensus status from all guardians",
   parts |-> <<>>, at |-> 0]

\* a queryConsensusStatus call that has just been made
NewQuery ==
  [pc |-> "new", index |-> 0, gets |-> <<>>, result |-> NoStatus,
   error |-> NoL3Error]

\* an iteration that leaves one guardian out
SkipGuardian(i) == i + 2

\* the guardian `for (const endpoint of this.config.endpoints)` goes on to
NextGuardian(i) == i + 1

\* the head of the loop at endpoint i in call r: await axios.get(...), or
\* the throw after the loop
TryGuardian(r, i) ==
  IF i <= Len(endpoints)
    THEN [r EXCEPT !.pc = "await", !.index = i, !.gets = Append(@, i)]
    ELSE [r EXCEPT !.pc = "thrown", !.index = i, !.error = QueryFailed]

\* queryConsensusStatus(attestationId) is called: the first pass of the loop
\* up to its await
QueryConsensusStatus ==
  /\ Len(queries) < MaxQueries
  /\ queries' = Append(queries, TryGuardian(NewQuery, FirstEndpoint(queries)))
  /\ UNCHANGED <<clientVars, retryVars, apiVars, endpoints, submits, checks>>

\* the GET in flight of call c settles: the status is built and returned, or
\* the catch block and the next pass of the loop
GetSettles(c) ==
  /\ queries[c].pc = "await"
  /\ LET r == queries[c]
         behaviour == endpoints[r.index]
     IN queries' = [queries EXCEPT ![c] =
          IF Resolves(behaviour)
            THEN [r EXCEPT !.pc = "returned",
                           !.result =
                             ConsensusStatus(StatusData(r.index, behaviour))]
            ELSE TryGuardian(r, NextGuardian(r.index))]
  /\ UNCHANGED <<clientVars, retryVars, apiVars, endpoints, submits, checks>>

\* the largest number of checkGuardiansHealth calls
MaxChecks == 1

\* the value the async callback of `map` resolves with for an endpoint:
\* true when axios.get resolves, that is for every 2xx response whatever
\* its body, false from the catch block (no response within 5000 ms, or
\* another status)
ProbeResult(behaviour) ==
  IF behaviour \in {"network", "status"} THEN "false" ELSE "true"

\* a count that takes every probe for a success
Every(results) == Len(results)

\* results.filter((r) => r).length
RECURSIVE Reachable(_)
Reachable(results) ==
  IF results = <<>> THEN 0
  ELSE (IF Head(results) = "true" THEN 1 ELSE 0) + Reachable(Tail(results))

\* a combinator that is fulfilled when one promise is
AnySettled(promises) ==
  \E i \in DOMAIN promises : promises[i] # "pending"

\* Promise.all(promises) is fulfilled: every promise is, none rejects
AllSettled(promises) ==
  \A i \in DOMAIN promises : promises[i] # "pending"

\* this.config.endpoints.map(async (endpoint) => ...): the callback runs for
\* each endpoint in turn up to its await, so that every GET is sent, and
\* gives a pending promise
MapProbes ==
  [promises |-> [i \in 1..Len(endpoints) |-> "pending"],
   gets |-> [i \in 1..Len(endpoints) |-> i]]

\* checkGuardiansHealth() is called: the probes, then await Promise.all
CheckGuardiansHealth ==
  /\ Len(checks) < MaxChecks
  /\ checks' = Append(checks,
       [pc |-> "await", promises |-> MapProbes.promises,
        gets |-> MapProbes.gets, settled |-> <<>>,
        result |-> [reachable |-> 0, total |-> 0]])
  /\ UNCHANGED <<clientVars, retryVars, apiVars, endpoints, submits, queries>>

\* the GET to endpoint i of call c settles, in whatever order
ProbeSettles(c, i) ==
  /\ i \in DOMAIN checks[c].promises
  /\ checks[c].promises[i] = "pending"
  /\ checks' = [checks EXCEPT ![c].promises[i] = ProbeResult(endpoints[i]),
                              ![c].settled = Append(@, i)]
  /\ UNCHANGED <<clientVars, retryVars, apiVars, endpoints, submits, queries>>

\* Promise.all is fulfilled and the call goes on: the count and the return
HealthReturns(c) ==
  /\ checks[c].pc = "await"
  /\ AllSettled(checks[c].promises)
  /\ checks' = [checks EXCEPT
       ![c].pc = "returned",
       ![c].result = [reachable |-> Reachable(checks[c].promises),
                      total |-> Len(endpoints)]]
  /\ UNCHANGED <<clientVars, retryVars, apiVars, endpoints, submits, queries>>

InitL3 ==
  /\ kind = "unix" /\ echo = FALSE /\ retryAttempts = 1
  /\ Constructed
  /\ operation = <<>>
  /\ retry = <<>>
  /\ \E n \in 0..MaxEndpoints : endpoints \in [1..n -> Behaviours]
  /\ submits = <<>>
  /\ queries = <<>>
  /\ checks = <<>>
  /\ http = <<>>
  /\ requestsProcessed = 0

NextL3 ==
  \/ SubmitAttestation
  \/ \E c \in 1..Len(submits) : PostSettles(c)
  \/ QueryConsensusStatus
  \/ \E c \in 1..Len(queries) : GetSettles(c)
  \/ CheckGuardiansHealth
  \/ \E c \in 1..Len(checks) : \E i \in 1..Len(endpoints) : ProbeSettles(c, i)
  \/ \E c \in 1..Len(checks) : HealthReturns(c)

SpecL3 == InitL3 /\ [][NextL3]_vars

(***************************************************************************)
(* The claims about submitAttestation, under SpecL3.                       *)
(***************************************************************************)
\* endpoint i is the first of the list whose POST resolves
FirstAccepting(i) ==
  /\ i \in 1..Len(endpoints)
  /\ Resolves(endpoints[i])
  /\ \A j \in 1..(i - 1) : ~Resolves(endpoints[j])

\* C19: the POSTs of a submitAttestation call go to endpoints 1, 2, 3, ... in
\* that order, one in flight at a time and only the last one; no POST
\* follows a POST that resolves; when endpoint i is the first whose POST
\* resolves, the call never throws, never makes more than i POSTs, and has
\* returned only after exactly i POSTs, with the submission built from the
\* answer of endpoint i.
C19_FirstSuccessWins ==
  \A c \in 1..Len(submits) :
    LET r == submits[c] IN
    /\ \A p \in 1..Len(r.posts) : r.posts[p] = p
    /\ r.pc = "await" => r.index = Len(r.posts)
    /\ \A p \in 1..(Len(r.posts) - 1) : ~Resolves(endpoints[p])
    /\ r.pc = "returned" => FirstAccepting(Len(r.posts))
    /\ \A i \in 1..Len(endpoints) :
         FirstAccepting(i) =>
           /\ Len(r.posts) <= i
           /\ r.pc # "thrown"
           /\ r.pc = "returned" =>
                /\ Len(r.posts) = i
                /\ r.result = Submission(ResponseData(i, endpoints[i]))
                /\ endpoints[i] = "accepts" =>
                     r.result.attestationId = AttestationId(i)

\* a call has returned the submission of the third endpoint after POSTs to
\* the first, the second and the third, the first two having failed
C19_Witness ==
  \E c \in 1..Len(submits) :
    /\ submits[c].pc = "returned"
    /\ submits[c].posts = <<1, 2, 3>>
    /\ submits[c].result.attestationId = AttestationId(3)

\* the POST to every endpoint of the list fails
AllFail == \A j \in 1..Len(endpoints) : ~Resolves(endpoints[j])

\* what the message of error e names
Names(e) == {e.parts[p] : p \in DOMAIN e.parts}

\* C20: when all N endpoints fail, a submitAttestation call never returns
\* and never makes more than N POSTs; when it has thrown, it has made
\* exactly N POSTs, and the error is one L3Error whose message names the
\* number of endpoints, N, and, for N >= 1, the error of the POST to the
\* last endpoint.
C20_AggregatedFailure ==
  \A c \in 1..Len(submits) :
    LET r == submits[c]
        N == Len(endpoints)
    IN AllFail =>
         /\ r.pc # "returned"
         /\ Len(r.posts) <= N
         /\ r.pc = "thrown" =>
              /\ Len(r.posts) = N
              /\ r.error.name = "L3Error"
              /\ N >= 1 =>
                   MessageOf(EndpointError(N, endpoints[N])) \in Names(r.error)
              /\ CountOf(N) \in Names(r.error)

\* a call has thrown the L3Error after three failed POSTs, and the message
\* names the error of the third
C20_Witness ==
  \E c \in 1..Len(submits) :
    /\ submits[c].pc = "thrown"
    /\ submits[c].posts = <<1, 2, 3>>
    /\ submits[c].error.name = "L3Error"
    /\ MessageOf(EndpointError(3, endpoints[3])) \in Names(submits[c].error)

\* the failures of an endpoint: no response, a status that is not 2xx, and
\* a 2xx response whose body is not a submission
Fails(behaviour) == behaviour # "accepts"

\* C21: a submitAttestation call whose POST to endpoint p has failed, in any
\* of the three ways, goes on to endpoint p + 1, or throws when p is the
\* last: it has returned only if its last POST was to an endpoint that
\* accepts, so that its result is never built from a body that is not a
\* submission; it has made a further POST only after a failure; and it has
\* thrown only after the POSTs to all endpoints have failed.
C21_FailureMovesOn ==
  \A c \in 1..Len(submits) :
    LET r == submits[c]
        n == Len(r.posts)
    IN /\ \A p \in 1..(n - 1) : Fails(endpoints[p])
       /\ r.pc = "returned" =>
            /\ ~Fails(endpoints[n])
            /\ r.result = Submission(Body(n))
       /\ r.pc = "thrown" =>
            /\ n = Len(endpoints)
            /\ \A p \in 1..n : Fails(endpoints[p])

\* a call has gone past an endpoint that gives no response, one that answers
\* with a status that is not 2xx and one whose 2xx body is null, and has
\* returned the submission of none of them
C21_Witness ==
  \E c \in 1..Len(submits) :
    /\ endpoints = <<"network", "status", "unparsable">>
    /\ submits[c].pc = "thrown"
    /\ submits[c].posts = <<1, 2, 3>>
    /\ submits[c].result = NoSubmission

Up == {i \in 1..Len(endpoints) : endpoints[i] \notin {"network", "status"}}

\* C23: a checkGuardiansHealth call is waiting or has returned, and never
\* ends in another way; the outcome recorded for
\* a probe that has settled is that of its own endpoint, whatever the other
\* probes did; and the call returns total = N and reachable = the number of
\* endpoints whose probe succeeded, between 0 and N.
C23_HealthCounts ==
  \A c \in 1..Len(checks) :
    LET r == checks[c] IN
    /\ r.pc \in {"await", "returned"}
    /\ \A i \in 1..Len(endpoints) :
         r.promises[i] # "pending" =>
           (r.promises[i] = "true" <=> i \in Up)
    /\ r.pc = "returned" =>
         /\ r.result.total = Len(endpoints)
         /\ r.result.reachable = Cardinality(Up)
         /\ r.result.reachable \in 0..r.result.total

\* of three endpoints one does not answer and two do: the call has returned
\* reachable 2 of total 3
C23_Witness ==
  \E c \in 1..Len(checks) :
    /\ Len(endpoints) = 3
    /\ \E i \in 1..3 : endpoints[i] = "network"
    /\ checks[c].pc = "returned"
    /\ checks[c].result = [reachable |-> 2, total |-> 3]

\* C24: from the moment a checkGuardiansHealth call is made, the GET to
\* every endpoint has been sent, while no probe need have settled; the
\* probes settle one by one in any order; the call has returned only when
\* every probe has settled; and what it returns is fixed by the endpoints
\* alone, whatever the order in which the probes settled.
C24_HealthWaitsForAll ==
  \A c \in 1..Len(checks) :
    LET r == checks[c]
        N == Len(endpoints)
    IN /\ r.gets = [i \in 1..N |-> i]
       /\ DOMAIN r.promises = 1..N
       /\ Len(r.settled) <= N
       /\ \A i \in 1..N :
            r.promises[i] # "pending" <=>
              \E k \in 1..Len(r.settled) : r.settled[k] = i
       /\ r.pc = "returned" =>
            /\ Len(r.settled) = N
            /\ \A i \in 1..N : r.promises[i] # "pending"
            /\ r.result = [reachable |-> Cardinality(Up), total |-> N]

\* a call has returned after its three probes have settled in the order
\* third, first, second, one of them having failed
C24_Witness ==
  \E c \in 1..Len(checks) :
    /\ checks[c].pc = "returned"
    /\ checks[c].settled = <<3, 1, 2>>
    /\ Cardinality(Up) = 2

\* the calls of a list that have ended, and what each has ended with
Outcomes(calls) ==
  {[pc |-> calls[c].pc, index |-> calls[c].index, result |-> calls[c].result,
    error |-> calls[c].error] :
     c \in {d \in 1..Len(calls) : calls[d].pc \in {"returned", "thrown"}}}

\* the first request of a call that starts
StartsAtFirst(call, requests) ==
  /\ call.index = 1
  /\ requests = IF Len(endpoints) >= 1 THEN <<1>> ELSE <<>>

\* C25: no step of a submitAttestation, queryConsensusStatus or
\* checkGuardiansHealth call changes the list of endpoints; a
\* submitAttestation or queryConsensusStatus call that starts makes its first
\* request to the first endpoint of the list, however the earlier calls
\* have ended; and all the calls of one method that have ended have ended
\* in the same way.
C25_Stateless ==
  [][/\ endpoints' = endpoints
     /\ Len(submits') > Len(submits) =>
          StartsAtFirst(submits'[Len(submits')], submits'[Len(submits')].posts)
     /\ Len(queries') > Len(queries) =>
          StartsAtFirst(queries'[Len(queries')], queries'[Len(queries')].gets)
     /\ Cardinality(Outcomes(submits')) <= 1
     /\ Cardinality(Outcomes(queries')) <= 1]_vars

\* a submitAttestation call has returned the answer of the second endpoint,
\* and the call made after it has again started at the first
C25_Witness ==
  /\ Len(submits) = 2
  /\ submits[1].pc = "returned" /\ submits[1].posts = <<1, 2>>
  /\ submits[2].pc = "await" /\ submits[2].posts = <<1>>
  /\ \E c \in 1..Len(checks) : checks[c].pc = "returned"

(***************************************************************************)
(* The HTTP API: the route handlers of createServer over a                 *)
(* UnixSocketClient that main() has connected, and the single-endpoint     *)
(* L3Client.  The caller waits for the answer to a POST /api/v1/request    *)
(* before it sends the next; GETs come at any time.                        *)
(***************************************************************************)
\* the largest number of HTTP requests, and of POSTs among them
MaxHttp == 3
MaxPosts == 2

\* req.body of a POST /api/v1/request: with a method, and without one
DAppBodies ==
  {[method |-> JStr(S_ping), params |-> JObj(<<>>)],
   [method |-> Undefined, params |-> JObj(<<>>)]}

\* the TeeRequest createRequestHandler builds from req.body for the call-th
\* sendRequest
ToTeeRequest(body, call) ==
  JObj(<< <<K_id, JStr(Uuid(call))>>, <<K_method, body.method>>,
          <<K_params, body.params>>, <<K_timestamp, JNum(0)>> >>)

\* an HTTP request whose handler has just been entered
NewExchange(route) ==
  [route |-> route, pc |-> "await", send |-> 0, hasMethod |-> TRUE,
   enclaveConnected |-> FALSE, l3Reachable |-> FALSE, served |-> 0,
   code |-> 0, json |-> JNull, status |-> "", requestsProcessed |-> 0]

\* the POSTs that have been answered
Served ==
  {h \in 1..Len(http) : http[h].route = "request" /\ http[h].pc = "sent"}

\* POST /api/v1/request: the handler builds the TeeRequest and awaits
\* vsockClient.sendRequest(teeRequest)
PostRequest ==
  /\ Len(http) < MaxHttp
  /\ Cardinality({h \in 1..Len(http) : http[h].route = "request"}) < MaxPosts
  /\ \A h \in 1..Len(http) : http[h].route = "request" => http[h].pc # "await"
  /\ \E body \in DAppBodies :
       /\ UnixSendRequest(ToTeeRequest(body, Len(sends) + 1))
       /\ http' = Append(http, [NewExchange("request") EXCEPT
                                  !.send = Len(sends) + 1,
                                  !.hasMethod = body.method # Undefined])
  /\ UNCHANGED <<retryVars, l3Vars, requestsProcessed>>

\* the response of an earlier call
Stale(c) == sends[IF c > 1 THEN c - 1 ELSE c].resp

\* the value of `await vsockClient.sendRequest(teeRequest)` in the handler
\* that made call c
Awaited(c) == sends[c].resp

\* the handler of POST h goes on after its await: res.json(response), or
\* the catch block, which logs and throws again
RequestResponds(h) ==
  /\ http[h].route = "request"
  /\ http[h].pc = "await"
  /\ sends[http[h].send].pc \in {"ok", "err"}
  /\ http' = [http EXCEPT ![h] =
       IF sends[http[h].send].pc = "ok"
         THEN [@ EXCEPT !.pc = "sent", !.code = 200,
                        !.json = Awaited(http[h].send)]
         ELSE [@ EXCEPT !.pc = "thrown"]]
  /\ UNCHANGED <<clientVars, retryVars, l3Vars, requestsProcessed>>

\* enclaveConnected && l3Reachable ? 'healthy' : 'unhealthy'
HealthOf(enclaveConnected, l3Reachable) ==
  IF enclaveConnected /\ l3Reachable THEN "healthy" ELSE "unhealthy"

\* GET /api/v1/health and GET /api/v1/status: vsockClient.isConnected(),
\* then await l3Client.checkHealth()
Get(route) ==
  /\ Len(http) < MaxHttp
  /\ http' = Append(http, [NewExchange(route) EXCEPT
                             !.enclaveConnected = connected,
                             !.served = Cardinality(Served)])
  /\ UNCHANGED <<clientVars, retryVars, l3Vars, requestsProcessed>>

GetHealth == Get("health")

GetStatus == Get("status")

\* checkHealth() has resolved, with true or with false (it catches every
\* error of its GET): the handler builds the status and sends it
HealthResponds(h) ==
  /\ http[h].route = "health"
  /\ http[h].pc = "await"
  /\ \E l3Reachable \in BOOLEAN :
       http' = [http EXCEPT ![h] =
         [@ EXCEPT !.pc = "sent", !.code = 200, !.l3Reachable = l3Reachable,
                   !.status = HealthOf(http[h].enclaveConnected, l3Reachable)]]
  /\ UNCHANGED <<clientVars, retryVars, l3Vars, requestsProcessed>>

StatusResponds(h) ==
  /\ http[h].route = "status"
  /\ http[h].pc = "await"
  /\ \E l3Reachable \in BOOLEAN :
       http' = [http EXCEPT ![h] =
         [@ EXCEPT !.pc = "sent", !.code = 200, !.l3Reachable = l3Reachable,
                   !.status = HealthOf(http[h].enclaveConnected, l3Reachable),
                   !.requestsProcessed = requestsProcessed]]
  /\ UNCHANGED <<clientVars, retryVars, l3Vars, requestsProcessed>>

\* incrementRequestCount(), which status.ts exports and nothing calls
IncrementRequestCount ==
  /\ requestsProcessed' = requestsProcessed + 1
  /\ UNCHANGED <<clientVars, retryVars, l3Vars, http>>

\* main() has connected the client and created the server
InitApi ==
  /\ kind = "unix"
  /\ echo = FALSE
  /\ retryAttempts = 1
  /\ socket = 1
  /\ connected = TRUE
  /\ dataBuffer = <<>>
  /\ pendingResponse = 0
  /\ socks = <<[NewSocket(1, 1) EXCEPT !.st = "open", !.shook = TRUE]>>
  /\ timers = <<>>
  /\ conns = <<[owner |-> 0, pc |-> "ok", attempt |-> 1, err |-> "",
                opens |-> 1, seen |-> TRUE, sock |-> 1]>>
  /\ sends = <<>>
  /\ enclave = [requestCount |-> 0, received |-> <<>>, faults |-> 0]
  /\ writes = <<>>
  /\ operation = <<>>
  /\ retry = <<>>
  /\ endpoints = <<>>
  /\ submits = <<>>
  /\ queries = <<>>
  /\ checks = <<>>
  /\ http = <<>>
  /\ requestsProcessed = 0

NextApi ==
  \/ Idle /\ PostRequest
  \/ Idle /\ GetHealth
  \/ Idle /\ GetStatus
  \/ \E h \in 1..Len(http) : RequestResponds(h)
  \/ \E h \in 1..Len(http) : HealthResponds(h)
  \/ \E h \in 1..Len(http) : StatusResponds(h)
  \/ UNCHANGED utilVars /\ \E c \in 1..Len(sends) : UnixReadExactly(c)
  \/ UNCHANGED utilVars /\ Idle
       /\ \E c \in 1..Len(sends) : UnixLengthWritten(c)
  \/ UNCHANGED utilVars /\ Idle
       /\ \E c \in 1..Len(sends) : UnixJsonWritten(c)
  \/ UNCHANGED utilVars /\ Idle
       /\ \E s \in 1..Len(socks) : \E now \in EnclaveClock :
            EnclaveData(s, Len(socks[s].toPeer), now)
  \/ UNCHANGED utilVars /\ Idle
       /\ \E s \in 1..Len(socks) : SocketData(s, Len(socks[s].toHost))
  \/ UNCHANGED utilVars /\ Idle /\ \E s \in 1..Len(socks) : PeerClose(s)
  \/ UNCHANGED utilVars /\ Idle /\ \E s \in 1..Len(socks) : SocketClose(s)

SpecApi == InitApi /\ [][NextApi]_vars

(***************************************************************************)
(* The claims about the HTTP API, under SpecApi.                           *)
(***************************************************************************)
\* the POSTs received, in order of arrival
Posts == {h \in 1..Len(http) : http[h].route = "request"}

\* C26: as long as the enclave stays connected, the i-th POST
\* /api/v1/request is the i-th sendRequest call and its request the i-th the
\* enclave receives, no request being received twice or without a POST; a
\* POST that has been answered was answered 200 with the response the
\* enclave gave to its own request; and once k POSTs have been answered and
\* none is in progress, the enclave has received exactly k requests.
C26_OneFramePerRequest ==
  enclave.faults = 0 =>
    /\ Len(sends) = Cardinality(Posts)
    /\ enclave.requestCount = Len(enclave.received)
    /\ enclave.requestCount <= Len(sends)
    /\ \A i \in 1..Len(enclave.received) :
         DeepEqual(enclave.received[i], sends[i].req)
    /\ \A h \in Posts :
         /\ http[h].pc # "thrown"
         /\ http[h].pc = "sent" =>
              /\ http[h].code = 200
              /\ http[h].send <= enclave.requestCount
              /\ \E now \in EnclaveClock :
                   http[h].json =
                     HandleRequest(enclave.received[http[h].send], now)
              /\ Prop(http[h].json, K_id) = Prop(sends[http[h].send].req, K_id)
    /\ (\A h \in Posts : http[h].pc = "sent") =>
         enclave.requestCount = Cardinality(Posts)

\* two POSTs have been answered one after the other and the enclave has
\* counted two requests
C26_Witness ==
  /\ enclave.faults = 0
  /\ Cardinality(Served) = 2
  /\ enclave.requestCount = 2
  /\ \A h \in Served : Prop(http[h].json, K_success) = JBool(TRUE)

\* C27: the requestsProcessed that GET /api/v1/status reports is at least
\* the number of POST /api/v1/request calls that had been answered when the
\* GET arrived, and no step makes the counter smaller.
C27_StatusCountsRequests ==
  [][/\ requestsProcessed' >= requestsProcessed
     /\ \A h \in 1..Len(http') :
          (http'[h].route = "status" /\ http'[h].pc = "sent") =>
            http'[h].requestsProcessed >= http'[h].served]_vars

\* GET /api/v1/status has been answered after two POSTs had been answered
C27_Witness ==
  \E h \in 1..Len(http) :
    /\ http[h].route = "status"
    /\ http[h].pc = "sent"
    /\ http[h].served = 2

\* C28: a POST /api/v1/request whose body has no method is not forwarded:
\* its handler makes no sendRequest call, the enclave never receives a
\* request without a method, and the answer to the POST is 400.
C28_MissingMethodRejected ==
  /\ \A h \in Posts :
       ~http[h].hasMethod =>
         /\ http[h].send = 0
         /\ http[h].pc = "sent" => http[h].code = 400
  /\ \A i \in 1..Len(enclave.received) :
       Prop(enclave.received[i], K_method) # Undefined

\* a POST without a method has been answered, after the enclave received
\* its request
C28_Witness ==
  \E h \in Posts :
    /\ ~http[h].hasMethod
    /\ http[h].pc = "sent"
    /\ http[h].send <= Len(enclave.received)
    /\ Prop(enclave.received[http[h].send], K_method) = Undefined

\* C29: GET /api/v1/health is answered 200, and with status 'healthy'
\* whenever vsockClient.isConnected() was true, also when the L3 endpoint
\* was not reachable.
C29_HealthyWhenConnected ==
  \A h \in 1..Len(http) :
    (http[h].route = "health" /\ http[h].pc = "sent") =>
      /\ http[h].code = 200
      /\ http[h].enclaveConnected => http[h].status = "healthy"

\* GET /api/v1/health has been answered with the enclave connected and the
\* L3 endpoint not reachable
C29_Witness ==
  \E h \in 1..Len(http) :
    /\ http[h].route = "health"
    /\ http[h].pc = "sent"
    /\ http[h].enclaveConnected
    /\ ~http[h].l3Reachable

(***************************************************************************)
(* The observer of retryWithBackoff, under SpecRetry.                      *)
(***************************************************************************)
\* the invocations of the operation in call r that have failed
Failures(r) ==
  IF r.pc \in {"returned", "await"} THEN Invocations(r) - 1
  ELSE Invocations(r)

Min(a, b) == IF a <= b THEN a ELSE b

\* C30: in a retryWithBackoff call with an onRetry and maxAttempts >= 1,
\* every call of onRetry comes right after the invocation of the operation
\* with the same number k, which failed, with k < maxAttempts and with the
\* error of that invocation, and right before the sleep that follows, if
\* the call goes on; there is no sleep without a call of onRetry before it;
\* and when f invocations have failed onRetry has been called
\* min(f, maxAttempts - 1) times, so never after the last failed attempt nor
\* after a success.
C30_ObserverPerFailure ==
  \A i \in DOMAIN retry :
    LET r == retry[i]
        ev == r.events
    IN (r.onRetry # "none" /\ r.maxAttempts >= 1 /\ r.pc # "new") =>
         /\ \A p \in 1..Len(ev) :
              ev[p].what = "onRetry" =>
                /\ p > 1
                /\ ev[p - 1] = Invoked(ev[p].n)
                /\ ev[p].n < r.maxAttempts
                /\ ev[p].error = OperationError(ev[p].n)
                /\ Outcome(ev[p].n) = "rejects"
                /\ p < Len(ev) => ev[p + 1].what = "sleep"
         /\ \A p \in 1..Len(ev) :
              ev[p].what = "sleep" => (p > 1 /\ ev[p - 1].what = "onRetry")
         /\ Len(Only(ev, "onRetry")) = Min(Failures(r), r.maxAttempts - 1)

\* a call with maxAttempts = 3 whose operation failed three times has ended
\* after two calls of onRetry
C30_Witness ==
  \E i \in DOMAIN retry :
    /\ retry[i].onRetry = "returns"
    /\ retry[i].maxAttempts = 3
    /\ retry[i].pc = "thrown"
    /\ Invocations(retry[i]) = 3
    /\ Len(Only(retry[i].events, "onRetry")) = 2

(***************************************************************************)
(* The single-endpoint L3Client: submitAttestation gives retryWithBackoff  *)
(* an operation that makes one POST.  Here `operation` holds what the      *)
(* endpoint does to the first, the second, ... POST.                       *)
(***************************************************************************)
\* an operation that throws what it caught
Rethrown(e) == e

\* new L3Error(`Failed to submit attestation: ${axiosError.message}`)
FailedToSubmit(e) ==
  [name |-> "L3Error", text |-> "Failed to submit attestation: ",
   parts |-> <<MessageOf(e)>>, at |-> 0]

\* the POST of the invocation in progress settles: the operation returns
\* the submission, which retryWithBackoff returns, or its catch block throws
\* the L3Error, which the catch block of retryWithBackoff takes
SubmitOperationSettles(i) ==
  /\ retry[i].pc = "await"
  /\ LET r == retry[i]
         behaviour == operation[r.attempt]
     IN retry' = [retry EXCEPT ![i] =
          IF Resolves(behaviour)
            THEN [r EXCEPT !.pc = "returned",
                           !.result =
                             Submission(ResponseData(r.attempt, behaviour))]
            ELSE Catch(r, FailedToSubmit(EndpointError(r.attempt, behaviour)))]
  /\ UNCHANGED <<clientVars, operation, l3Vars, apiVars>>

\* the options submitAttestation gives: maxAttempts = config.retryAttempts,
\* delayMs 1000, backoffMultiplier 2, no onRetry
InitSubmit ==
  /\ kind = "unix" /\ echo = FALSE /\ retryAttempts = 1
  /\ Constructed
  /\ operation \in [1..MaxAttempts -> Behaviours]
  /\ \E m \in 0..MaxAttempts : retry = <<NewRetry(m, 1000, 2, "none")>>
  /\ endpoints = <<>>
  /\ submits = <<>>
  /\ queries = <<>>
  /\ checks = <<>>
  /\ http = <<>>
  /\ requestsProcessed = 0

NextSubmit ==
  \/ \E i \in DOMAIN retry : RetryCall(i)
  \/ \E i \in DOMAIN retry : SubmitOperationSettles(i)
  \/ \E i \in DOMAIN retry : RetrySleepDone(i)

SpecSubmit == InitSubmit /\ [][NextSubmit]_vars

\* C31: with config.retryAttempts >= 1, a submitAttestation call of the
\* single-endpoint client never makes more than retryAttempts POSTs; it has
\* returned only the submission built from the answer to its last POST,
\* which is the first that resolved; and it has rejected only after
\* retryAttempts POSTs that all failed, with an L3Error 'Failed to submit
\* attestation: ' followed by the message of the failure of the last POST.
C31_SingleEndpointSubmit ==
  \A i \in DOMAIN retry :
    LET r == retry[i]
        n == Invocations(r)
    IN r.maxAttempts >= 1 =>
         /\ n <= r.maxAttempts
         /\ \A j \in 1..(n - 1) : ~Resolves(operation[j])
         /\ r.pc = "returned" =>
              /\ Resolves(operation[n])
              /\ r.result = Submission(ResponseData(n, operation[n]))
         /\ r.pc = "thrown" =>
              /\ n = r.maxAttempts
              /\ ~Resolves(operation[n])
              /\ r.error.name = "L3Error"
              /\ r.error.text = "Failed to submit attestation: "
              /\ r.error.parts =
                   <<MessageOf(EndpointError(n, operation[n]))>>

\* with retryAttempts = 3 a call has returned the answer to its third POST
\* after sleeps of 1000 and 2000 ms
C31_Witness ==
  \E i \in DOMAIN retry :
    /\ retry[i].maxAttempts = 3
    /\ retry[i].pc = "returned"
    /\ Invocations(retry[i]) = 3
    /\ Sleeps(retry[i]) = <<Slept(1000), Slept(2000)>>

(***************************************************************************)
(* The claims about timers, replaced sockets and the reassembly buffer,    *)
(* under Spec.                                                             *)
(***************************************************************************)
\* the timer that is due belongs to an attempt that has settled: its
\* handshake completed, or it failed
TimerOfSettled ==
  timers # <<>> /\ ~Pending(Head(timers).conn, Head(timers).att)

\* C32: the timer of a connect attempt that has settled destroys no socket
\* when it fires: no socket that was connecting or open is destroyed in that
\* step, whichever attempt or connect() call opened it.
C32_TimerOwnAttemptOnly ==
  [][(TimerOfSettled /\ Len(timers') < Len(timers))
       => \A s \in 1..Len(socks) :
            socks[s].st \in {"connecting", "open"} => socks'[s].st = socks[s].st]_vars

\* the timer of an attempt whose handshake completed has fired and the
\* attempt's socket is still open, the client connected
C32_Witness ==
  \E k \in 1..Len(conns) :
    /\ conns[k].pc = "ok"
    /\ timers = <<>>
    /\ socket = conns[k].sock
    /\ socks[socket].st = "open"
    /\ connected

\* the socket the instance holds has completed its handshake and has neither
\* errored nor closed
CurrentSocketUp ==
  socket # 0 /\ socks[socket].shook /\ socks[socket].st = "open"

\* the step is an event of socket s: 'connect', 'error' (which destroys the
\* socket) or 'close'
EventOf(s) ==
  \/ socks[s].st = "connecting" /\ socks'[s].st = "open"
  \/ /\ socks[s].st \in {"connecting", "open"} /\ socks'[s].st = "destroyed"
     /\ enclave'.faults > enclave.faults
  \/ socks[s].st # "closed" /\ socks'[s].st = "closed"

\* C33: isConnected() is true only if the socket the instance holds has
\* completed its handshake and has not since errored or closed, and the
\* 'connect', 'error' and 'close' events of a socket the instance no longer
\* holds leave isConnected() as it was.
C33_ConnectedMeansCurrentSocket ==
  [][/\ connected' => (socket' # 0 /\ socks'[socket'].shook
                         /\ socks'[socket'].st = "open")
     /\ \A s \in 1..Len(socks) :
          (s # socket /\ EventOf(s)) => connected' = connected]_vars

\* a client that has replaced its first socket is connected through the
\* socket it holds
C33_Witness ==
  /\ connected
  /\ socket > 1
  /\ CurrentSocketUp
  /\ \A s \in 1..(socket - 1) : socks[s].st = "closed"

(***************************************************************************)
(* The reconnect specification: a VsocketClient from its construction,     *)
(* with main and the HTTP route handler as callers, the bytes of the       *)
(* responses arriving in chunks of any size.                               *)
(***************************************************************************)
\* a delivery is partial only while fewer than MaxPartial bytes have been
\* received on its socket
MaxPartial == 2

\* the sizes of the next delivery on socket s
Deliveries(s) ==
  {n \in ChunkSizes(Len(socks[s].toHost)) :
     n = Len(socks[s].toHost) \/ Len(socks[s].got) < MaxPartial}

InitReconnect == Init /\ kind = "vsock" /\ retryAttempts = 1

NextReconnect ==
  \/ UNCHANGED utilVars /\ \E c \in 1..Len(sends) : VsockResume(c)
  \/ UNCHANGED utilVars /\ \E c \in 1..Len(sends) : VsockCatch(c)
  \/ UNCHANGED utilVars /\ \E c \in 1..Len(sends) : VsockRetry(c)
  \/ UNCHANGED utilVars /\ Idle /\ Timeout
  \/ UNCHANGED utilVars /\ Idle /\ \E s \in 1..Len(socks) : SocketClose(s)
  \/ UNCHANGED utilVars /\ Idle
       /\ \E s \in 1..Len(socks) : \E now \in EnclaveClock :
            EnclaveData(s, Len(socks[s].toPeer), now)
  \/ UNCHANGED utilVars /\ Idle
       /\ \E s \in 1..Len(socks) : \E n \in Deliveries(s) : SocketData(s, n)
  \/ UNCHANGED utilVars /\ Idle /\ Connect
  \/ UNCHANGED utilVars /\ Idle /\ HttpRequest
  \/ UNCHANGED utilVars /\ Idle /\ \E s \in 1..Len(socks) : SocketConnect(s)
  \/ UNCHANGED utilVars /\ Idle /\ \E s \in 1..Len(socks) : SocketError(s)
  \/ UNCHANGED utilVars /\ Idle /\ \E s \in 1..Len(socks) : PeerClose(s)

SpecReconnect == InitReconnect /\ [][NextReconnect]_vars

\* C34: when the socket VsocketClient holds has completed its handshake and
\* no byte has been received on it yet, the reassembly buffer is empty: no
\* byte received on an earlier connection is left to take part in the
\* framing of this one.
C34_FreshBufferOnReconnect ==
  \A s \in 1..Len(socks) :
    (s = socket /\ s > 1 /\ socks[s].st = "open" /\ socks[s].got = <<>>)
      => dataBuffer = <<>>

\* a reconnect has completed with the reassembly buffer empty, the earlier
\* connection having received bytes
C34_Witness ==
  /\ socket > 1
  /\ socks[socket].st = "open"
  /\ socks[socket].got = <<>>
  /\ socks[1].got # <<>>
  /\ dataBuffer = <<>>

(***************************************************************************)
(* The claims about handleData, under SpecFrame.                           *)
(***************************************************************************)
\* the number of bytes of a stream that its complete frames take
Framed(stream) ==
  LET frames == FramesFrom(stream, 0) IN
  IF frames = <<>> THEN 0
  ELSE frames[Len(frames)].from + frames[Len(frames)].len

\* C35: after every handleData call of VsocketClient the retained buffer is
\* shorter than 4 bytes or shorter than 4 + L for the L its first 4 bytes
\* encode, and the bytes received on the connection are the complete frames
\* extracted so far, in order, followed by the retained buffer.
C35_RetainedIsIncomplete ==
  kind = "vsock" =>
    LET got == socks[1].got IN
    /\ \/ Len(dataBuffer) < 4
       \/ Len(dataBuffer) < 4 + BigEndian(SubSeq(dataBuffer, 1, 4))
    /\ dataBuffer = SubSeq(got, Framed(got) + 1, Len(got))
    /\ Framed(got) + Len(dataBuffer) = Len(got)

\* handleData has extracted a frame and retains the length prefix and some
\* of the payload of the next
C35_Witness ==
  /\ kind = "vsock"
  /\ Framed(socks[1].got) > 0
  /\ Len(dataBuffer) > 4

(***************************************************************************)
(* The overlap specification: a connected VsocketClient whose caller does  *)
(* not await one sendRequest call before the next; the peer is MockEnclave *)
(* and the bytes arrive in chunks of any size.                             *)
(***************************************************************************)
\* the number of sendRequest calls
MaxOverlap == 3

InitOverlap == InitFrame /\ kind = "vsock" /\ echo = FALSE

OverlapSend ==
  /\ Len(sends) < MaxOverlap
  /\ \E req \in HttpRequests(Len(sends) + 1) : VsockSendConnected(req)

NextOverlap ==
  \/ OverlapSend /\ UNCHANGED utilVars
  \/ \E s \in 1..Len(socks) : \E now \in EnclaveClock :
       EnclaveData(s, Len(socks[s].toPeer), now) /\ UNCHANGED utilVars
  \/ \E s \in 1..Len(socks) : \E n \in ChunkSizes(Len(socks[s].toHost)) :
       SocketData(s, n) /\ UNCHANGED utilVars

SpecOverlap == InitOverlap /\ [][NextOverlap]_vars

\* the payload of frame f of a stream
Payload(stream, f) ==
  LET fr == FramesFrom(stream, 0)[f] IN SubSeq(stream, fr.from + 1, fr.from + fr.len)

\* the calls that return in this step
Returning ==
  {c \in 1..Len(sends) : sends[c].pc # "ok" /\ sends'[c].pc = "ok"}

\* C36: a sendRequest call of VsocketClient returns only in the handleData
\* call that completes a frame, only if it is the call whose promise
\* pendingResponse held before that call, and with the first frame completed
\* in it; at most one call returns per handleData call, and after a
\* handleData call that completed a frame no promise is pending.  So a frame
\* completed while no call is awaiting, or after the first frame of its
\* chunk, is given to no call, then or later, and no frame is given to two.
C36_UnsolicitedFrameDiscarded ==
  [][LET k == Len(FramesFrom(socks[1].got, 0))
         k2 == Len(FramesFrom(socks'[1].got, 0))
     IN /\ Cardinality(Returning) <= 1
        /\ \A c \in Returning :
             /\ pendingResponse = c
             /\ k2 > k
             /\ sends'[c].acc = Payload(socks'[1].got, k + 1)
        /\ k2 > k => /\ pendingResponse' = 0
                     /\ Len(dataBuffer') = Len(socks'[1].got) - Framed(socks'[1].got)
        /\ k2 = k => pendingResponse' >= pendingResponse]_vars

\* the frames of the stream received that were given to no call
Unclaimed ==
  {f \in 1..Len(FramesFrom(socks[1].got, 0)) :
     \A c \in 1..Len(sends) :
       sends[c].pc = "ok" => sends[c].acc # Payload(socks[1].got, f)}

\* two frames arrived in one chunk and the second was discarded; a call made
\* afterwards has returned the frame that answers it
C36_Witness ==
  /\ Len(sends) = 3
  /\ sends[3].pc = "ok"
  /\ Len(FramesFrom(socks[1].got, 0)) = 3
  /\ sends[3].acc = Payload(socks[1].got, 3)
  /\ 2 \in Unclaimed
  /\ dataBuffer = <<>>

\* the peer has answered every request written and the client has received
\* and framed every byte of the answers
Drained ==
  /\ \A s \in 1..Len(socks) :
       socks[s].toPeer = <<>> /\ socks[s].peerBuf = <<>> /\ socks[s].toHost = <<>>
  /\ dataBuffer = <<>>
  /\ enclave.requestCount = Len(sends)

\* C37: with a peer that answers every request with one valid frame, once
\* every answer has been received no sendRequest call of VsocketClient is
\* still pending, also when the calls overlapped.
C37_OverlappingCallsComplete ==
  Drained => \A c \in 1..Len(sends) : sends[c].pc = "ok"

\* two calls that did not overlap have both returned
C37_Witness ==
  /\ Len(sends) = 2
  /\ Drained
  /\ \A c \in 1..2 : sends[c].pc = "ok" /\ sends[c].acc = Payload(socks[1].got, c)

(***************************************************************************)
(* disconnect() during a connect() call, under SpecDisconnect.             *)
(***************************************************************************)
\* disconnect() has been called on the socket the instance holds: end() is
\* called by disconnect() only, and the caller of SpecDisconnect makes no
\* connect() call after one that opened a socket
DisconnectedSince == socket # 0 /\ socks[socket].ended

\* C38: after disconnect() has returned, and until the caller calls
\* connect() or sendRequest again, isConnected() is false, also when
\* disconnect() was called during the handshake of a connect() call.
C38_StaysDisconnected ==
  DisconnectedSince => ~connected

\* after disconnect() on a connected client the socket has closed, no timer
\* is left and isConnected() is false
C38_Witness ==
  /\ DisconnectedSince
  /\ socks[socket].shook
  /\ socks[socket].st = "closed"
  /\ timers = <<>>
  /\ ~connected

(***************************************************************************)
(* The attempts specification: connect() on a new client next to a         *)
(* retryWithBackoff call with the options connect() gives, for every       *)
(* number of attempts the configuration schema accepts, below 1 included.  *)
(***************************************************************************)
\* the values of config.retryAttempts: Joi.number() sets no minimum
AttemptCounts == (-1)..MaxRetryAttempts

InitAttempts ==
  /\ kind \in {"unix", "vsock"} /\ echo = FALSE
  /\ retryAttempts \in AttemptCounts
  /\ Constructed
  /\ operation \in [1..MaxRetryAttempts -> {"resolves", "rejects"}]
  /\ \E d \in DelaysMs : \E cb \in {"none", "returns"} :
       retry = <<NewRetry(retryAttempts, d, 2, cb)>>
  /\ endpoints = <<>>
  /\ submits = <<>>
  /\ queries = <<>>
  /\ checks = <<>>
  /\ http = <<>>
  /\ requestsProcessed = 0

NextAttempts ==
  \/ \E i \in DOMAIN retry : RetryCall(i)
  \/ \E i \in DOMAIN retry : OperationSettles(i)
  \/ \E i \in DOMAIN retry : RetrySleepDone(i)
  \/ UNCHANGED utilVars /\ Connect
  \/ UNCHANGED utilVars /\ \E s \in 1..Len(socks) : SocketConnect(s)
  \/ UNCHANGED utilVars /\ \E s \in 1..Len(socks) : SocketError(s)
  \/ UNCHANGED utilVars /\ \E s \in 1..Len(socks) : SocketClose(s)
  \/ UNCHANGED utilVars /\ \E k \in 1..Len(conns) : SleepDone(k)
  \/ UNCHANGED utilVars /\ Timeout

SpecAttempts == InitAttempts /\ [][NextAttempts]_vars

\* C39: a retryWithBackoff call with maxAttempts < 1 never invokes the
\* operation, never calls onRetry and never sleeps, and when it has ended it
\* has rejected with undefined; a connect() call on a client with
\* retryAttempts < 1 has opened no socket, has started no timer and has
\* rejected with undefined.
C39_NoAttemptsRejectsUndefined ==
  /\ \A i \in DOMAIN retry :
       retry[i].maxAttempts < 1 =>
         /\ retry[i].events = <<>>
         /\ retry[i].pc \in {"new", "thrown"}
         /\ retry[i].pc = "thrown" => retry[i].error = NoError
  /\ retryAttempts < 1 =>
       /\ socks = <<>> /\ timers = <<>> /\ socket = 0 /\ ~connected
       /\ \A k \in 1..Len(conns) :
            /\ conns[k].pc = "err"
            /\ conns[k].err = "undefined"
            /\ conns[k].opens = 0

\* with retryAttempts = 0 both the retryWithBackoff call and connect() have
\* rejected
C39_Witness ==
  /\ retryAttempts = 0
  /\ retry[1].pc = "thrown"
  /\ Len(conns) = 1
  /\ conns[1].pc = "err"
=============================================================================
